---- MODULE Spec2Model ----
(***************************************************************************)
(* Daily reports email service (src/main.py).                              *)
(*                                                                         *)
(* Four specifications over one set of variables:                          *)
(*   SpecAnalyze  analyze_data applied to bounded record lists             *)
(*   SpecWindow   ist_day_utc_bounds / fetch_today_filtered_logs against a *)
(*                store of rows while the clock advances                   *)
(*   Spec         one run of send_reports: recipient resolution, the       *)
(*                per-owner loop, the per-location fetch loop, delivery    *)
(*   SpecSes      get_ses_client called from the threads of the server     *)
(*                                                                         *)
(* Conventions.  Python None is the string "None" for text fields and the  *)
(* empty tuple <<>> for numeric fields (a present number n is <<n>>).      *)
(* Instants are integer minutes on the UTC axis.  A Python float quotient  *)
(* a / b is the exact fraction [n |-> a, d |-> b].                         *)
(***************************************************************************)
EXTENDS Integers, Sequences, FiniteSets, TLC

VARIABLES
    \* ---- analyze_data harness
    logs,        \* the record list handed to analyze_data
    analysis,    \* its result, or NotAnalysed
    \* ---- clock
    now,         \* current instant, UTC minutes
    \* ---- the transaction-log table and what fetches of it returned
    store,       \* rows of the logs table, in insertion order
    lastFetch,   \* the fetch_today_filtered_logs call that has just returned, if any
    fetchedOn,   \* per row: the IST days on which some fetch returned it
    \* ---- one run of send_reports
    pc,                     \* position in send_reports
    request,                \* the JSON body of the request
    usersTable,             \* rows of the users table
    owners,                 \* the resolved owner list
    paths,                  \* the recipient-resolution paths this run executed
    userQueries,            \* number of queries made against the users table
    idx,                    \* position of the owner loop (1-based)
    owner_location_ids,     \* location ids of the owner being processed
    locIdx,                 \* position of the location loop (1-based)
    location_data,          \* dict location_id -> analysis/logs/name, insertion order
    has_any_data,
    all_logs,
    emails_sent,
    emails_failed,
    emails_skipped,
    email_results,
    total_revenue_summary,
    total_records_summary,
    response,               \* the JSON response, once returned
    fetchTrace,             \* history: every fetch_today_filtered_logs call of the run
    outbox,                 \* history: every send_email_with_attachments_ses call
    faults,                 \* number of external failures so far in the run
    \* ---- get_ses_client in a threaded server
    ses_client,  \* the module global: 0 for None, else the number of a client
    built,       \* how many boto3 clients have been constructed
    tpc,         \* per thread: its position inside get_ses_client
    tcalls,      \* per thread: the calls of get_ses_client it has started
    tmade,       \* per thread: the client it has constructed and not yet stored
    returned     \* the clients that calls of get_ses_client have returned

None == "None"
NoNum == <<>>

----------------------------------------------------------------------------
(* Time: IST_TZ, now_ist, ist_day_utc_bounds, parse_iso_to_ist             *)

\* pytz 'Asia/Kolkata' is UTC+05:30 with no daylight saving
IST_OFFSET_MIN == 330
\* timedelta(days=1)
DAY_MIN == 1440
HOUR_MIN == 60

\* datetime.now(timezone.utc).astimezone(IST_TZ): wall-clock minutes in IST
now_ist(t) == t + IST_OFFSET_MIN

\* dt_ist.date(): the IST calendar day number of an IST wall-clock value
date_of(wall) == wall \div DAY_MIN

\* .hour of an IST wall-clock value
hour_of(wall) == (wall % DAY_MIN) \div HOUR_MIN

\* parse_iso_to_ist: an absent or unparsable string falls back to now_ist()
parse_iso_to_ist(iso, t) ==
    IF iso = NoNum THEN now_ist(t) ELSE iso[1] + IST_OFFSET_MIN

\* ist_day_utc_bounds with the day's last minute as the upper bound
ist_day_utc_bounds_EndOfDay(t) ==
    LET day == date_of(now_ist(t))
        start_ist == day * DAY_MIN
    IN  [start |-> start_ist - IST_OFFSET_MIN,
         end |-> start_ist + DAY_MIN - 1 - IST_OFFSET_MIN]

\* ist_day_utc_bounds(): midnight of the IST day of t and 24 hours later, both
\* converted to UTC
ist_day_utc_bounds(t) ==
    LET dt_ist == now_ist(t)
        day == date_of(dt_ist)
        start_ist == day * DAY_MIN
        end_ist == start_ist + DAY_MIN
    IN  [start |-> start_ist - IST_OFFSET_MIN, end |-> end_ist - IST_OFFSET_MIN]

----------------------------------------------------------------------------
(* fetch_today_filtered_logs                                               *)

\* map_row: a joined row of the logs table flattened to the legacy keys
map_row(row) ==
    [id |-> row.id,
     created_at |-> row.created_at,
     Amount |-> IF row.amount # NoNum THEN row.amount ELSE row.total,
     payment_mode |-> row.payment_mode,
     service |-> row.service,
     vehicle_type |-> row.vehicle_type,
     upi_account_name |-> None,
     location_id |-> row.loc_id]

\* the query: approval_status = 'approved', loc_id = location_id when one is
\* given, created_at >= start_of_day, created_at < end_of_day
RowMatches(row, location_id, t) ==
    /\ row.approval_status = "approved"
    /\ (location_id # None /\ location_id # "") => row.loc_id = location_id
    /\ row.created_at[1] >= ist_day_utc_bounds(t).start
    /\ row.created_at[1] < ist_day_utc_bounds(t).end

RECURSIVE SelectRows(_, _, _, _)
SelectRows(rows, i, location_id, t) ==
    IF i > Len(rows) THEN <<>>
    ELSE (IF RowMatches(rows[i], location_id, t) THEN <<map_row(rows[i])>> ELSE <<>>)
         \o SelectRows(rows, i + 1, location_id, t)

fetch_today_filtered_logs(location_id, rows, t) == SelectRows(rows, 1, location_id, t)

----------------------------------------------------------------------------
(* analyze_data                                                            *)

Frac(a, b) == [n |-> a, d |-> b]
ZeroFrac == [n |-> 0, d |-> 1]

\* str.lower() on the payment-mode labels of the model
Lower(s) ==
    CASE s = "Cash" -> "cash"
      [] s = "UPI"  -> "upi"
      [] s = "Card" -> "card"
      [] OTHER      -> s

\* position of the group with the given key in an insertion-ordered dict, 0 if absent
RECURSIVE KeyIndexFrom(_, _, _)
KeyIndexFrom(groups, key, i) ==
    IF i > Len(groups) THEN 0
    ELSE IF groups[i].key = key THEN i
    ELSE KeyIndexFrom(groups, key, i + 1)

KeyIndex(groups, key) == KeyIndexFrom(groups, key, 1)

\* sum(log.get('Amount', 0) for log in logs), for logs whose Amount is a number
RECURSIVE SumAmounts(_, _)
SumAmounts(ls, i) ==
    IF i > Len(ls) THEN 0 ELSE ls[i].Amount[1] + SumAmounts(ls, i + 1)

\* upiAccounts[account_name] count/amount increment
UpiAdd(accts, name, amt) ==
    LET k == KeyIndex(accts, name) IN
    IF k = 0
    THEN Append(accts, [key |-> name, count |-> 1, amount |-> amt])
    ELSE [accts EXCEPT ![k] = [@ EXCEPT !.count = @ + 1, !.amount = @ + amt]]

\* the group a record is accumulated in: payment_mode.lower()
PaymentKey(log) == Lower(log.payment_mode)

\* PaymentStep with the group's revenue assigned where the code accumulates it
PaymentStep_Assign(groups, log) ==
    LET key == Lower(log.payment_mode)
        k0 == KeyIndex(groups, key)
        g1 == IF k0 = 0
              THEN Append(groups, [key |-> key, mode |-> log.payment_mode,
                                   count |-> 0, revenue |-> 0,
                                   percentage |-> ZeroFrac, upiAccounts |-> <<>>])
              ELSE groups
        k == IF k0 = 0 THEN Len(g1) ELSE k0
    IN  [g1 EXCEPT ![k] = [@ EXCEPT !.count = @ + 1, !.revenue = log.Amount[1]]]

\* PaymentStep with the nested accounts incremented for every payment mode
PaymentStep_AnyMode(groups, log) ==
    LET key == PaymentKey(log)
        amt == log.Amount[1]
        k0 == KeyIndex(groups, key)
        g1 == IF k0 = 0
              THEN Append(groups, [key |-> key, mode |-> log.payment_mode,
                                   count |-> 0, revenue |-> 0,
                                   percentage |-> ZeroFrac, upiAccounts |-> <<>>])
              ELSE groups
        k == IF k0 = 0 THEN Len(g1) ELSE k0
        g2 == [g1 EXCEPT ![k] = [@ EXCEPT !.count = @ + 1, !.revenue = @ + amt]]
    IN  IF log.upi_account_name # None
        THEN [g2 EXCEPT ![k] = [@ EXCEPT !.upiAccounts =
                                   UpiAdd(@, log.upi_account_name, amt)]]
        ELSE g2

\* one iteration of the payment-mode loop
PaymentStep(groups, log) ==
    LET key == PaymentKey(log)
        amt == log.Amount[1]
        k0 == KeyIndex(groups, key)
        g1 == IF k0 = 0
              THEN Append(groups, [key |-> key, mode |-> log.payment_mode,
                                   count |-> 0, revenue |-> 0,
                                   percentage |-> ZeroFrac, upiAccounts |-> <<>>])
              ELSE groups
        k == IF k0 = 0 THEN Len(g1) ELSE k0
        g2 == [g1 EXCEPT ![k] = [@ EXCEPT !.count = @ + 1, !.revenue = @ + amt]]
    IN  IF key = "upi" /\ log.upi_account_name # None
        THEN [g2 EXCEPT ![k] = [@ EXCEPT !.upiAccounts =
                                   UpiAdd(@, log.upi_account_name, amt)]]
        ELSE g2

RECURSIVE PaymentFold(_, _, _)
PaymentFold(ls, i, groups) ==
    IF i > Len(ls) THEN groups
    ELSE PaymentFold(ls, i + 1, PaymentStep(groups, ls[i]))

\* RevenueShare as a ratio, without the factor 100
RevenueShare_Ratio(revenue, total_revenue) ==
    IF total_revenue > 0 THEN Frac(revenue, total_revenue) ELSE ZeroFrac

\* (revenue / total_revenue * 100) if total_revenue > 0 else 0
RevenueShare(revenue, total_revenue) ==
    IF total_revenue > 0 THEN Frac(revenue * 100, total_revenue) ELSE ZeroFrac

\* (count / total_vehicles * 100) if total_vehicles > 0 else 0
CountShare(count, total_vehicles) ==
    IF total_vehicles > 0 THEN Frac(count * 100, total_vehicles) ELSE ZeroFrac

\* one iteration of the service loop
ServiceStep(groups, log) ==
    LET key == log.service
        k0 == KeyIndex(groups, key)
        g1 == IF k0 = 0
              THEN Append(groups, [key |-> key, service |-> key, name |-> key,
                                   count |-> 0, revenue |-> 0,
                                   averagePrice |-> ZeroFrac,
                                   revenueShare |-> ZeroFrac])
              ELSE groups
        k == IF k0 = 0 THEN Len(g1) ELSE k0
        g2 == [g1 EXCEPT ![k] = [@ EXCEPT !.count = @ + 1,
                                          !.revenue = @ + log.Amount[1]]]
    IN  [g2 EXCEPT ![k] = [@ EXCEPT !.averagePrice = Frac(g2[k].revenue, g2[k].count)]]

RECURSIVE ServiceFold(_, _, _)
ServiceFold(ls, i, groups) ==
    IF i > Len(ls) THEN groups
    ELSE ServiceFold(ls, i + 1, ServiceStep(groups, ls[i]))

\* VehicleStep with a new group created at count 1 and then incremented as well
VehicleStep_DoubleFirst(groups, log) ==
    LET key == log.vehicle_type
        k0 == KeyIndex(groups, key)
        g1 == IF k0 = 0
              THEN Append(groups, [key |-> key, type |-> key, count |-> 1,
                                   percentage |-> ZeroFrac])
              ELSE groups
        k == IF k0 = 0 THEN Len(g1) ELSE k0
    IN  [g1 EXCEPT ![k] = [@ EXCEPT !.count = @ + 1]]

\* one iteration of the vehicle-type loop
VehicleStep(groups, log) ==
    LET key == log.vehicle_type
        k0 == KeyIndex(groups, key)
        g1 == IF k0 = 0
              THEN Append(groups, [key |-> key, type |-> key, count |-> 0,
                                   percentage |-> ZeroFrac])
              ELSE groups
        k == IF k0 = 0 THEN Len(g1) ELSE k0
    IN  [g1 EXCEPT ![k] = [@ EXCEPT !.count = @ + 1]]

RECURSIVE VehicleFold(_, _, _)
VehicleFold(ls, i, groups) ==
    IF i > Len(ls) THEN groups
    ELSE VehicleFold(ls, i + 1, VehicleStep(groups, ls[i]))

Hours == 0 .. 23

\* f"{hour_12}:00 {period}"
HourDisplay(i) ==
    <<(IF i % 12 = 0 THEN 12 ELSE i % 12), (IF i < 12 THEN "AM" ELSE "PM")>>

\* the 24 zeroed slots
EmptySlots ==
    [i \in Hours |-> [hour |-> i, display |-> HourDisplay(i),
                      amount |-> 0, count |-> 0, revenue |-> 0]]

\* LogHour read off the stored UTC timestamp, without astimezone(IST_TZ)
LogHour_Utc(log, t) ==
    IF log.created_at = NoNum THEN hour_of(now_ist(t)) ELSE hour_of(log.created_at[1])

\* the slot a record is added to
LogHour(log, t) == hour_of(parse_iso_to_ist(log.created_at, t))

RECURSIVE HourlyFold(_, _, _, _)
HourlyFold(ls, i, slots, t) ==
    IF i > Len(ls) THEN slots
    ELSE LET h == LogHour(ls[i], t) IN
         HourlyFold(ls, i + 1,
             [slots EXCEPT ![h] = [@ EXCEPT !.amount = @ + ls[i].Amount[1],
                                            !.count = @ + 1,
                                            !.revenue = @ + ls[i].Amount[1]]],
             t)

\* max(seq, key=revenue): the first element holding the maximum
RECURSIVE MaxByRevenueFrom(_, _, _)
MaxByRevenueFrom(seq, i, best) ==
    IF i > Len(seq) THEN best
    ELSE MaxByRevenueFrom(seq, i + 1,
             IF seq[i].revenue > seq[best].revenue THEN i ELSE best)

MaxByRevenue(seq) == seq[MaxByRevenueFrom(seq, 2, 1)]

\* PeakHourFrom keeping the last slot that holds the maximum
RECURSIVE PeakHourFrom_Last(_, _, _)
PeakHourFrom_Last(slots, i, best) ==
    IF i > 23 THEN best
    ELSE PeakHourFrom_Last(slots, i + 1,
             IF slots[i].revenue >= slots[best].revenue THEN i ELSE best)

\* max(hourly_breakdown, key=revenue) over the 24 slots, lowest hour first
RECURSIVE PeakHourFrom(_, _, _)
PeakHourFrom(slots, i, best) ==
    IF i > 23 THEN best
    ELSE PeakHourFrom(slots, i + 1,
             IF slots[i].revenue > slots[best].revenue THEN i ELSE best)

PeakHourSlot(slots) == slots[PeakHourFrom(slots, 1, 0)]

\* peak_service: max over the services, or the literal default for an empty list
PeakService(service_list) ==
    IF Len(service_list) > 0
    THEN [name |-> MaxByRevenue(service_list).name,
          revenue |-> MaxByRevenue(service_list).revenue]
    ELSE [name |-> "N/A", revenue |-> 0]

\* InsertByRevenue placing a group before the groups of equal revenue
RECURSIVE InsertByRevenue_Unstable(_, _, _)
InsertByRevenue_Unstable(sorted, x, i) ==
    IF i > Len(sorted) THEN Append(sorted, x)
    ELSE IF x.revenue >= sorted[i].revenue
         THEN SubSeq(sorted, 1, i - 1) \o <<x>> \o SubSeq(sorted, i, Len(sorted))
         ELSE InsertByRevenue_Unstable(sorted, x, i + 1)

\* sorted(values, key=revenue, reverse=True): a stable sort, so a group is placed
\* after every group already placed whose revenue is not smaller
RECURSIVE InsertByRevenue(_, _, _)
InsertByRevenue(sorted, x, i) ==
    IF i > Len(sorted) THEN Append(sorted, x)
    ELSE IF x.revenue > sorted[i].revenue
         THEN SubSeq(sorted, 1, i - 1) \o <<x>> \o SubSeq(sorted, i, Len(sorted))
         ELSE InsertByRevenue(sorted, x, i + 1)

RECURSIVE SortByRevenueFrom(_, _, _)
SortByRevenueFrom(seq, i, acc) ==
    IF i > Len(seq) THEN acc
    ELSE SortByRevenueFrom(seq, i + 1, InsertByRevenue(acc, seq[i], 1))

SortByRevenueDesc(seq) == SortByRevenueFrom(seq, 1, <<>>)

\* sorted(values, key=count, reverse=True)
RECURSIVE InsertByCount(_, _, _)
InsertByCount(sorted, x, i) ==
    IF i > Len(sorted) THEN Append(sorted, x)
    ELSE IF x.count > sorted[i].count
         THEN SubSeq(sorted, 1, i - 1) \o <<x>> \o SubSeq(sorted, i, Len(sorted))
         ELSE InsertByCount(sorted, x, i + 1)

RECURSIVE SortByCountFrom(_, _, _)
SortByCountFrom(seq, i, acc) ==
    IF i > Len(seq) THEN acc
    ELSE SortByCountFrom(seq, i + 1, InsertByCount(acc, seq[i], 1))

SortByCountDesc(seq) == SortByCountFrom(seq, 1, <<>>)

\* FilterSlots keeping only the slots with a positive amount
RECURSIVE FilterSlots_AmountOnly(_, _)
FilterSlots_AmountOnly(slots, i) ==
    IF i > 23 THEN <<>>
    ELSE (IF slots[i].amount > 0 THEN <<slots[i]>> ELSE <<>>)
         \o FilterSlots_AmountOnly(slots, i + 1)

\* [h for h in hourly_breakdown if h['count'] > 0 or h['amount'] > 0]
RECURSIVE FilterSlots(_, _)
FilterSlots(slots, i) ==
    IF i > 23 THEN <<>>
    ELSE (IF slots[i].count > 0 \/ slots[i].amount > 0 THEN <<slots[i]>> ELSE <<>>)
         \o FilterSlots(slots, i + 1)

\* the exception analyze_data raises on a record list, or "" when it returns:
\* sum() over a None Amount is a TypeError, None.lower() an AttributeError
AnalyzeError(ls) ==
    IF \E i \in 1 .. Len(ls) : ls[i].Amount = NoNum THEN "TypeError"
    ELSE IF \E i \in 1 .. Len(ls) : ls[i].payment_mode = None THEN "AttributeError"
    ELSE ""

analyze_data(ls, t) ==
    IF AnalyzeError(ls) # "" THEN [raised |-> TRUE, error |-> AnalyzeError(ls)]
    ELSE
    LET total_revenue == SumAmounts(ls, 1)
        total_vehicles == Len(ls)
        avg_service == IF total_vehicles > 0
                       THEN Frac(total_revenue, total_vehicles) ELSE ZeroFrac
        pay0 == PaymentFold(ls, 1, <<>>)
        pay == [k \in 1 .. Len(pay0) |->
                  [pay0[k] EXCEPT !.percentage =
                      RevenueShare(pay0[k].revenue, total_revenue)]]
        svc0 == ServiceFold(ls, 1, <<>>)
        svc == [k \in 1 .. Len(svc0) |->
                  [svc0[k] EXCEPT !.revenueShare =
                      RevenueShare(svc0[k].revenue, total_revenue)]]
        veh0 == VehicleFold(ls, 1, <<>>)
        veh == [k \in 1 .. Len(veh0) |->
                  [veh0[k] EXCEPT !.percentage =
                      CountShare(veh0[k].count, total_vehicles)]]
        slots == HourlyFold(ls, 1, EmptySlots, t)
        peak_hour == PeakHourSlot(slots)
        peak_service == PeakService(svc)
        hourly == FilterSlots(slots, 0)
    IN  [raised |-> FALSE,
         error |-> "",
         totalRevenue |-> total_revenue,
         totalVehicles |-> total_vehicles,
         avgService |-> avg_service,
         paymentModeBreakdown |-> pay,
         serviceBreakdown |-> SortByRevenueDesc(svc),
         vehicleDistribution |-> SortByCountDesc(veh),
         hourlyBreakdown |-> hourly,
         peakHour |-> peak_hour.display,
         peakHourRevenue |-> peak_hour.revenue,
         topService |-> peak_service.name,
         topServiceRevenue |-> peak_service.revenue,
         busyHours |-> Len(hourly)]

----------------------------------------------------------------------------
(* SpecAnalyze: analyze_data on every bounded list of canonical records    *)

MaxLogs == 2

NotAnalysed == [raised |-> FALSE, error |-> "not analysed"]

\* a morning instant of the model's first IST day: 10:15 IST
T1015 == 285

AnalyzeRecords ==
    [Amount : {NoNum, <<-1>>, <<0>>, <<2>>},
     payment_mode : {None, "Cash", "UPI", "upi"},
     upi_account_name : {None},
     service : {"Wash", "Polish"},
     vehicle_type : {None, "Car"},
     created_at : {<<T1015>>}]

\* 10:45 IST of the same day, and 00:15 IST of the next
T1045 == 315
T0015 == 1125

LogRecord(amount, payment_mode, upi_account_name, service, vehicle_type, created_at) ==
    [Amount |-> amount, payment_mode |-> payment_mode,
     upi_account_name |-> upi_account_name, service |-> service,
     vehicle_type |-> vehicle_type, created_at |-> created_at]

\* a UPI payment with a sub-account and a cash payment half an hour later
UpiWashCar == LogRecord(<<500>>, "UPI", "Acct1", "Wash", "Car", <<T1015>>)
CashWashBike == LogRecord(<<300>>, "Cash", None, "Wash", "Bike", <<T1045>>)

\* records at another hour, without created_at, with an empty payment_mode,
\* without service, and UPI and cash payments naming an account
EdgeRecords ==
    {UpiWashCar, CashWashBike,
     LogRecord(<<2>>, "Cash", None, "Wash", "Car", <<T0015>>),
     LogRecord(<<2>>, "Cash", None, "Wash", "Car", NoNum),
     LogRecord(<<2>>, "", None, "Wash", "Car", <<T1015>>),
     LogRecord(<<2>>, "Cash", None, None, "Car", <<T1015>>),
     LogRecord(<<2>>, "upi", "Acct1", "Wash", "Car", <<T1015>>),
     LogRecord(<<2>>, "UPI", "Acct2", "Wash", "Car", <<T1015>>),
     LogRecord(<<2>>, "Cash", "Acct1", "Wash", "Car", <<T1015>>)}

CanonicalRecords == AnalyzeRecords \cup EdgeRecords

RECURSIVE SeqsUpTo(_, _)
SeqsUpTo(S, n) ==
    IF n = 0 THEN {<<>>}
    ELSE LET shorter == SeqsUpTo(S, n - 1) IN
         shorter \cup {Append(s, x) : s \in {q \in shorter : Len(q) = n - 1}, x \in S}

analyzeVars == <<logs, analysis>>
windowVars == <<store, lastFetch, fetchedOn>>
resolveVars == <<request, usersTable, owners, paths, userQueries>>
ownerVars == <<owner_location_ids, locIdx, location_data, has_any_data, all_logs>>
tallyVars == <<emails_sent, emails_failed, emails_skipped, email_results,
               total_revenue_summary, total_records_summary>>
traceVars == <<fetchTrace, outbox, faults>>
runVars == <<pc, idx, response, resolveVars, ownerVars, tallyVars, traceVars>>

\* threads of the server and the calls of get_ses_client each may make
MaxThreads == 2
MaxCalls == 2
Threads == 1 .. MaxThreads

sesVars == <<ses_client, built, tpc, tcalls, tmade, returned>>

\* the module as imported: ses_client = None and no call under way
IdleSes ==
    /\ ses_client = 0
    /\ built = 0
    /\ tpc = [t \in Threads |-> "idle"]
    /\ tcalls = [t \in Threads |-> 0]
    /\ tmade = [t \in Threads |-> 0]
    /\ returned = {}

vars == <<analyzeVars, sesVars, now, windowVars, runVars>>

NoRequest ==
    [email_override |-> None, users |-> <<>>, location_ids |-> [kind |-> "none"],
     timezone |-> None]
NoResponse == [success |-> FALSE, status |-> 0]

\* the run variables before a request has arrived
IdleRun ==
    /\ pc = "idle"
    /\ request = NoRequest
    /\ usersTable = <<>>
    /\ owners = <<>>
    /\ paths = {}
    /\ userQueries = 0
    /\ idx = 0
    /\ owner_location_ids = <<>>
    /\ locIdx = 0
    /\ location_data = <<>>
    /\ has_any_data = FALSE
    /\ all_logs = <<>>
    /\ emails_sent = 0
    /\ emails_failed = 0
    /\ emails_skipped = 0
    /\ email_results = <<>>
    /\ total_revenue_summary = 0
    /\ total_records_summary = 0
    /\ response = NoResponse
    /\ fetchTrace = <<>>
    /\ outbox = <<>>
    /\ faults = 0

NoFetch == [at |-> -1, location_id |-> None, n |-> 0, rows |-> <<>>]

\* the variables a specification leaves idle
IdleWindow == store = <<>> /\ lastFetch = NoFetch /\ fetchedOn = <<>>
IdleAnalyze == logs = <<>> /\ analysis = NotAnalysed

InitAnalyze ==
    /\ logs \in SeqsUpTo(CanonicalRecords, MaxLogs)
    /\ analysis = NotAnalysed
    /\ now = T1015
    /\ IdleWindow
    /\ IdleRun
    /\ IdleSes

Analyze ==
    /\ analysis = NotAnalysed
    /\ analysis' = analyze_data(logs, now)
    /\ UNCHANGED <<logs, now, windowVars, runVars, sesVars>>

NextAnalyze == Analyze

SpecAnalyze == InitAnalyze /\ [][NextAnalyze]_vars

Analysed == analysis # NotAnalysed
Returned == Analysed /\ ~analysis.raised

----------------------------------------------------------------------------
(* SpecWindow: the logs table fills while the clock runs over MaxDays IST  *)
(* days, and fetch_today_filtered_logs is called at any instant            *)

MaxDays == 2
MaxStoreRows == 2

LocationIds == {"L1", "L2"}

\* the instants the clock visits: IST 00:00, 00:01, 12:00 and 23:59 of each day
Instants ==
    {t \in 0 .. MaxDays * DAY_MIN :
        (t + IST_OFFSET_MIN) % DAY_MIN \in {0, 1, 720, DAY_MIN - 1}}

\* the IST calendar day an instant lies in
IstDay(t) == date_of(now_ist(t))

InitWindow ==
    /\ now = CHOOSE t \in Instants : \A u \in Instants : t <= u
    /\ store = <<>>
    /\ lastFetch = NoFetch
    /\ fetchedOn = <<>>
    /\ IdleAnalyze
    /\ IdleRun
    /\ IdleSes

\* time passes to a later instant
Tick ==
    /\ \E t \in Instants :
          /\ t > now
          /\ \A u \in Instants : u > now => t <= u
          /\ now' = t
    /\ lastFetch' = NoFetch
    /\ UNCHANGED <<store, fetchedOn, analyzeVars, sesVars, runVars>>

\* the intake system records a transaction, stamped with the current instant
Intake ==
    /\ Len(store) < MaxStoreRows
    /\ \E st \in {"approved", "pending"}, loc \in LocationIds :
          store' = Append(store,
              [id |-> Len(store) + 1, created_at |-> <<now>>,
               approval_status |-> st, loc_id |-> loc,
               amount |-> <<2>>, total |-> NoNum, payment_mode |-> "Cash",
               service |-> "Wash", vehicle_type |-> "Car"])
    /\ fetchedOn' = Append(fetchedOn, {})
    /\ lastFetch' = NoFetch
    /\ UNCHANGED <<now, analyzeVars, sesVars, runVars>>

\* fetch_today_filtered_logs(location_id) is called now
FetchToday ==
    /\ \E loc \in {None, "L1"} :
          LET rows == fetch_today_filtered_logs(loc, store, now)
              ids == {rows[k].id : k \in 1 .. Len(rows)}
          IN  /\ lastFetch' = [at |-> now, location_id |-> loc,
                               n |-> Len(store), rows |-> rows]
              /\ fetchedOn' = [i \in 1 .. Len(store) |->
                                  IF i \in ids THEN fetchedOn[i] \cup {IstDay(now)}
                                  ELSE fetchedOn[i]]
    /\ UNCHANGED <<now, store, analyzeVars, sesVars, runVars>>

NextWindow == Tick \/ Intake \/ FetchToday

SpecWindow == InitWindow /\ [][NextWindow]_vars

----------------------------------------------------------------------------
(* get_owner_locations, get_owner_display_name                             *)

\* An assigned_location value: [kind |-> "none"] is None or another falsy value,
\* [kind |-> "str", parts |-> p] is the string whose comma-separated pieces are p,
\* [kind |-> "list", v |-> l] is a list, [kind |-> "other"] any other truthy value.

\* str.strip() on the pieces of the model
Strip(piece) ==
    CASE piece = " L1" -> "L1"
      [] piece = " L2" -> "L2"
      [] OTHER -> piece

\* get_owner_locations without the strip() of the comma-separated parts
get_owner_locations_NoStrip(owner, locs) ==
    LET assigned == owner.assigned_location IN
    CASE assigned.kind = "none" -> [i \in 1 .. Len(locs) |-> locs[i].id]
      [] assigned.kind = "list" -> assigned.v
      [] assigned.kind = "str" -> assigned.parts
      [] OTHER -> <<>>

get_owner_locations(owner, locs) ==
    LET assigned == owner.assigned_location IN
    CASE assigned.kind = "none" -> [i \in 1 .. Len(locs) |-> locs[i].id]
      [] assigned.kind = "list" -> assigned.v
      [] assigned.kind = "str" ->
            IF Len(assigned.parts) > 1
            THEN [i \in 1 .. Len(assigned.parts) |-> Strip(assigned.parts[i])]
            ELSE <<assigned.parts[1]>>
      [] OTHER -> <<>>

\* first_name and last_name are blank in the model's rows: email, then id
get_owner_display_name(owner) ==
    IF owner.email # None THEN owner.email ELSE owner.id

----------------------------------------------------------------------------
(* send_reports                                                            *)

MaxOwners == 2
MaxFaults == 1

\* the locations table
LocationsTable == <<[id |-> "L1", name |-> "Alpha"], [id |-> "L2", name |-> "Beta"]>>

UserId(i) ==
    CASE i = 1 -> "u1" [] i = 2 -> "u2" [] i = 3 -> "u3" [] OTHER -> "u4"

UserEmail(i) ==
    CASE i = 1 -> "u1@x" [] i = 2 -> "u2@x" [] i = 3 -> "u3@x" [] OTHER -> "u4@x"

\* what a row of the users table may hold besides its id
UserShapes ==
    {[has_email |-> FALSE, assigned_location |-> [kind |-> "none"], role |-> "owner"],
     [has_email |-> TRUE, assigned_location |-> [kind |-> "none"], role |-> "owner"],
     [has_email |-> TRUE, assigned_location |-> [kind |-> "str", parts |-> <<"L1">>],
      role |-> "owner"],
     [has_email |-> TRUE,
      assigned_location |-> [kind |-> "str", parts |-> <<"L2", " L1">>],
      role |-> "owner"],
     [has_email |-> TRUE, assigned_location |-> [kind |-> "list", v |-> <<"L1", "L1">>],
      role |-> "owner"],
     [has_email |-> TRUE, assigned_location |-> [kind |-> "other"], role |-> "owner"],
     [has_email |-> TRUE, assigned_location |-> [kind |-> "none"], role |-> "staff"]}

UserRow(i, shape) ==
    [id |-> UserId(i),
     email |-> IF shape.has_email THEN UserEmail(i) ELSE None,
     assigned_location |-> shape.assigned_location,
     role |-> shape.role]

UsersTables ==
    {[i \in 1 .. Len(shapes) |-> UserRow(i, shapes[i])] :
        shapes \in SeqsUpTo(UserShapes, MaxOwners)}

\* request bodies: nothing, a users payload, a users payload without user_id,
\* an email_override, an email_override together with users and location_ids
Requests ==
    {NoRequest,
     [email_override |-> None, users |-> <<[user_id |-> "u1"]>>,
      location_ids |-> [kind |-> "none"], timezone |-> None],
     [email_override |-> None, users |-> <<[user_id |-> ""]>>,
      location_ids |-> [kind |-> "none"], timezone |-> None],
     [email_override |-> "t@x", users |-> <<>>, location_ids |-> [kind |-> "none"],
      timezone |-> None],
     [email_override |-> "t@x", users |-> <<[user_id |-> "u1"]>>,
      location_ids |-> [kind |-> "list", v |-> <<"L2">>],
      timezone |-> "Asia/Tokyo"]}

\* the approved rows of today that one location holds, by amount
LocationAmounts == {<<>>, <<<<0>>>>, <<<<2>>, <<0>>>>, <<NoNum>>}

StoreRow(i, loc, amt, t) ==
    [id |-> i, created_at |-> <<t>>, approval_status |-> "approved", loc_id |-> loc,
     amount |-> amt, total |-> NoNum, payment_mode |-> "Cash",
     service |-> "Wash", vehicle_type |-> "Car"]

RunStore(a1, a2, t) ==
    [i \in 1 .. Len(a1) |-> StoreRow(i, "L1", a1[i], t)]
    \o [i \in 1 .. Len(a2) |-> StoreRow(Len(a1) + i, "L2", a2[i], t)]

ErrorResponse(code, msg) == [success |-> FALSE, status |-> code, error |-> msg]

Init ==
    /\ pc = "idle"
    /\ request = NoRequest
    /\ usersTable \in UsersTables
    /\ owners = <<>>
    /\ paths = {}
    /\ userQueries = 0
    /\ idx = 0
    /\ owner_location_ids = <<>>
    /\ locIdx = 0
    /\ location_data = <<>>
    /\ has_any_data = FALSE
    /\ all_logs = <<>>
    /\ emails_sent = 0
    /\ emails_failed = 0
    /\ emails_skipped = 0
    /\ email_results = <<>>
    /\ total_revenue_summary = 0
    /\ total_records_summary = 0
    /\ response = NoResponse
    /\ fetchTrace = <<>>
    /\ outbox = <<>>
    /\ faults = 0
    /\ now = T1015
    /\ \E a1 \in LocationAmounts, a2 \in LocationAmounts : store = RunStore(a1, a2, T1015)
    /\ lastFetch = NoFetch
    /\ fetchedOn = <<>>
    /\ IdleAnalyze
    /\ IdleSes

\* the request arrives: authorization, the body, the environment, the locations table
StartOutcomes ==
    {"ok",
     "Missing required environment variable: AWS_ACCESS_KEY_ID",
     "Missing required environment variable: AWS_SECRET_ACCESS_KEY",
     "Missing required environment variable: SES_VERIFIED_FROM",
     "Invalid email format in SES_VERIFIED_FROM",
     "Failed to fetch locations: query raised",
     "Failed to fetch locations"}

Unauthorized ==
    /\ pc = "idle"
    /\ pc' = "done"
    /\ response' = ErrorResponse(401, "Unauthorized")
    /\ UNCHANGED <<idx, resolveVars, ownerVars, tallyVars, traceVars,
                   analyzeVars, sesVars, now, windowVars>>

Start ==
    /\ pc = "idle"
    /\ \E r \in Requests, c \in StartOutcomes :
          /\ request' = r
          /\ IF c = "ok"
             THEN pc' = "resolve" /\ UNCHANGED response
             ELSE pc' = "done" /\ response' = ErrorResponse(500, c)
    /\ UNCHANGED <<idx, usersTable, owners, paths, userQueries, ownerVars, tallyVars,
                   traceVars, analyzeVars, sesVars, now, windowVars>>

\* the synthetic owner built from email_override
SyntheticOwner(req) ==
    [id |-> "override", email |-> req.email_override,
     assigned_location |-> req.location_ids, role |-> "owner",
     templateno |-> 1,
     timezone |-> IF req.timezone = None THEN "UTC" ELSE req.timezone]

\* the user_schedules table: the first user reports in New York time, the others
\* have no schedule row
UserSchedules ==
    <<[user_id |-> "u1", templateno |-> 1, timezone |-> "America/New_York"]>>

\* schedules_map.get(user_id): the position of the user's schedule row, 0 if none
RECURSIVE ScheduleIndex(_, _)
ScheduleIndex(user_id, i) ==
    IF i > Len(UserSchedules) THEN 0
    ELSE IF UserSchedules[i].user_id = user_id THEN i
    ELSE ScheduleIndex(user_id, i + 1)

\* user rows become owners with the template and timezone of their schedule row,
\* or with the defaults of an absent schedule
WithSchedule(row) ==
    LET k == ScheduleIndex(row.id, 1) IN
    [id |-> row.id, email |-> row.email, assigned_location |-> row.assigned_location,
     role |-> row.role,
     templateno |-> IF k = 0 THEN 1 ELSE UserSchedules[k].templateno,
     timezone |-> IF k = 0 THEN "UTC" ELSE UserSchedules[k].timezone]

\* select ... .in_('id', user_ids).eq('role', 'owner')
RECURSIVE SelectOwners(_, _, _)
SelectOwners(table, i, user_ids) ==
    IF i > Len(table) THEN <<>>
    ELSE (IF table[i].role = "owner" /\ table[i].id \in user_ids
          THEN <<WithSchedule(table[i])>> ELSE <<>>)
         \o SelectOwners(table, i + 1, user_ids)

AllIds(table) == {table[i].id : i \in 1 .. Len(table)}

\* `if owners is None and scheduled_users` without its first conjunct
SchedulePathTaken_NoGuard(overridden, req) == Len(req.users) > 0

\* if owners is None and scheduled_users:
SchedulePathTaken(overridden, req) == ~overridden /\ Len(req.users) > 0

\* elif owners is None:
FallbackPathTaken(overridden, req) ==
    ~SchedulePathTaken(overridden, req) /\ ~overridden

\* recipient resolution: the owner list, the paths executed, the users-table
\* queries made, and the exception raised ("" when none)
resolve_owners(req, table) ==
    LET overridden == req.email_override # None
        user_ids == {req.users[k].user_id : k \in 1 .. Len(req.users)} \ {""}
        sched == SchedulePathTaken(overridden, req)
        fallb == FallbackPathTaken(overridden, req)
        executed == (IF overridden THEN {"override"} ELSE {})
                    \cup (IF sched THEN {"schedule"} ELSE {})
                    \cup (IF fallb THEN {"fallback"} ELSE {})
    IN  IF sched /\ user_ids = {}
        THEN [owners |-> <<>>, paths |-> executed, queries |-> 0,
              error |-> "No valid user_id values found in request payload"]
        ELSE [owners |-> IF sched THEN SelectOwners(table, 1, user_ids)
                         ELSE IF fallb THEN SelectOwners(table, 1, AllIds(table))
                         ELSE <<SyntheticOwner(req)>>,
              paths |-> executed,
              queries |-> (IF sched THEN 1 ELSE 0) + (IF fallb THEN 1 ELSE 0),
              error |-> ""]

\* the except clause of the user_schedules query: schedules_map = {}, so every
\* owner gets the defaults
WithoutSchedules(rows) ==
    [i \in 1 .. Len(rows) |-> [rows[i] EXCEPT !.templateno = 1, !.timezone = "UTC"]]

Resolve ==
    /\ pc = "resolve"
    /\ LET r == resolve_owners(request, usersTable) IN
          /\ \/ owners' = r.owners /\ UNCHANGED faults
             \/ /\ r.queries > 0
                /\ r.owners # <<>>
                /\ faults < MaxFaults
                /\ faults' = faults + 1
                /\ owners' = WithoutSchedules(r.owners)
          /\ paths' = r.paths
          /\ userQueries' = r.queries
          /\ IF r.error # ""
             THEN pc' = "done" /\ response' = ErrorResponse(500, r.error)
             ELSE pc' = "verify" /\ UNCHANGED response
    /\ UNCHANGED <<idx, request, usersTable, ownerVars, tallyVars, fetchTrace, outbox,
                   analyzeVars, sesVars, now, windowVars>>

\* the users-table query raises: the outer handler answers with the error
ResolveQueryFails ==
    /\ pc = "resolve"
    /\ faults < MaxFaults
    /\ resolve_owners(request, usersTable).queries > 0
    /\ faults' = faults + 1
    /\ paths' = resolve_owners(request, usersTable).paths
    /\ userQueries' = 1
    /\ pc' = "done"
    /\ response' = ErrorResponse(500, "users query failed")
    /\ UNCHANGED <<idx, request, usersTable, owners, ownerVars, tallyVars,
                   fetchTrace, outbox, analyzeVars, sesVars, now, windowVars>>

\* VerifySes with the failed quota check recorded and the run going on
VerifySes_Continue ==
    /\ pc = "verify"
    /\ \/ /\ pc' = "owner"
          /\ idx' = 1
          /\ UNCHANGED <<response, faults>>
       \/ /\ faults < MaxFaults
          /\ faults' = faults + 1
          /\ pc' = "owner"
          /\ idx' = 1
          /\ response' = ErrorResponse(500, "SES configuration invalid")
    /\ UNCHANGED <<resolveVars, ownerVars, tallyVars, fetchTrace, outbox,
                   analyzeVars, sesVars, now, windowVars>>

\* Verify SES connection, then the counters of the run are zeroed
VerifySes ==
    /\ pc = "verify"
    /\ \/ /\ pc' = "owner"
          /\ idx' = 1
          /\ UNCHANGED <<response, faults>>
       \/ /\ faults < MaxFaults
          /\ faults' = faults + 1
          /\ pc' = "done"
          /\ response' = ErrorResponse(500, "SES configuration invalid")
          /\ UNCHANGED idx
    /\ UNCHANGED <<resolveVars, ownerVars, tallyVars, fetchTrace, outbox,
                   analyzeVars, sesVars, now, windowVars>>

InOwnerLoop == pc = "owner" /\ idx <= Len(owners)

\* SkipReason without the check on the location list
SkipReason_EmailOnly(owner) ==
    IF owner.email = None THEN "No email address" ELSE ""

\* the reason the owner at the loop head is skipped for, "" when it is processed
SkipReason(owner) ==
    IF owner.email = None THEN "No email address"
    ELSE IF get_owner_locations(owner, LocationsTable) = <<>>
         THEN "No locations assigned"
         ELSE ""

\* SkipOwner that records the outcome and leaves the skipped counter alone
SkipOwner_NoCount ==
    /\ InOwnerLoop
    /\ SkipReason(owners[idx]) # ""
    /\ email_results' = Append(email_results,
          [owner |-> get_owner_display_name(owners[idx]),
           email |-> owners[idx].email,
           status |-> "skipped",
           reason |-> SkipReason(owners[idx]),
           timezone |-> owners[idx].timezone])
    /\ idx' = idx + 1
    /\ UNCHANGED <<pc, response, resolveVars, ownerVars, emails_sent, emails_failed,
                   emails_skipped, total_revenue_summary, total_records_summary,
                   traceVars, analyzeVars, sesVars, now, windowVars>>

SkipOwner ==
    /\ InOwnerLoop
    /\ SkipReason(owners[idx]) # ""
    /\ emails_skipped' = emails_skipped + 1
    /\ email_results' = Append(email_results,
          [owner |-> get_owner_display_name(owners[idx]),
           email |-> owners[idx].email,
           status |-> "skipped",
           reason |-> SkipReason(owners[idx]),
           timezone |-> owners[idx].timezone])
    /\ idx' = idx + 1
    /\ UNCHANGED <<pc, response, resolveVars, ownerVars, emails_sent, emails_failed,
                   total_revenue_summary, total_records_summary, traceVars,
                   analyzeVars, sesVars, now, windowVars>>

StartOwner ==
    /\ InOwnerLoop
    /\ SkipReason(owners[idx]) = ""
    /\ owner_location_ids' = get_owner_locations(owners[idx], LocationsTable)
    /\ location_data' = <<>>
    /\ has_any_data' = FALSE
    /\ all_logs' = <<>>
    /\ locIdx' = 1
    /\ pc' = "fetch"
    /\ UNCHANGED <<idx, response, resolveVars, tallyVars, traceVars,
                   analyzeVars, sesVars, now, windowVars>>

\* the name of a location id, "Unknown Location" when the table has none
RECURSIVE LocationNameFrom(_, _, _)
LocationNameFrom(locs, i, location_id) ==
    IF i > Len(locs) THEN "Unknown Location"
    ELSE IF locs[i].id = location_id THEN locs[i].name
    ELSE LocationNameFrom(locs, i + 1, location_id)

LocationName(location_id) == LocationNameFrom(LocationsTable, 1, location_id)

\* location_data[location_id] = entry
DictSet(dict, key, entry) ==
    IF KeyIndex(dict, key) = 0 THEN Append(dict, entry)
    ELSE [dict EXCEPT ![KeyIndex(dict, key)] = entry]

\* one iteration of the location loop with the exception escaping the iteration
\* (the rest of the loop is abandoned)
FetchRaised_Abort ==
    /\ locIdx' = Len(owner_location_ids) + 1
    /\ fetchTrace' = Append(fetchTrace,
          [owner |-> idx, location_id |-> owner_location_ids[locIdx],
           raised |-> TRUE, count |-> 0,
           window |-> ist_day_utc_bounds(now), rows |-> <<>>,
           analysis |-> NotAnalysed])
    /\ UNCHANGED <<location_data, has_any_data, all_logs>>

\* one iteration of the location loop in which fetch_today_filtered_logs raises:
\* the except clause logs and the loop goes on
FetchRaised ==
    /\ locIdx' = locIdx + 1
    /\ fetchTrace' = Append(fetchTrace,
          [owner |-> idx, location_id |-> owner_location_ids[locIdx],
           raised |-> TRUE, count |-> 0,
           window |-> ist_day_utc_bounds(now), rows |-> <<>>,
           analysis |-> NotAnalysed])
    /\ UNCHANGED <<location_data, has_any_data, all_logs>>

\* FetchReturned with the day window and the hour buckets taken in the owner's own
\* timezone instead of IST
FetchReturned_OwnerTimezone ==
    LET location_id == owner_location_ids[locIdx]
        tz == owners[idx].timezone
        utc_offset == CASE tz = "America/New_York" -> -300
                        [] tz = "Asia/Tokyo" -> 540
                        [] OTHER -> 0
        shift == utc_offset - IST_OFFSET_MIN
        location_logs == fetch_today_filtered_logs(location_id, store, now + shift)
        local_logs == [i \in 1 .. Len(location_logs) |->
                         [location_logs[i] EXCEPT !.created_at = <<@[1] + shift>>]]
        an == analyze_data(local_logs, now + shift)
    IN  /\ locIdx' = locIdx + 1
        /\ fetchTrace' = Append(fetchTrace,
              [owner |-> idx, location_id |-> location_id,
               raised |-> FALSE, count |-> Len(location_logs),
               window |-> ist_day_utc_bounds(now + shift), rows |-> location_logs,
               analysis |-> IF Len(location_logs) > 0 THEN an ELSE NotAnalysed])
        /\ IF Len(location_logs) > 0
           THEN /\ has_any_data' = TRUE
                /\ all_logs' = all_logs \o location_logs
                /\ IF an.raised
                   THEN UNCHANGED location_data
                   ELSE location_data' = DictSet(location_data, location_id,
                           [key |-> location_id, analysis |-> an,
                            logs |-> location_logs,
                            location_name |-> LocationName(location_id)])
           ELSE UNCHANGED <<location_data, has_any_data, all_logs>>

\* FetchReturned with has_any_data set from the revenue instead of the row count
FetchReturned_RevenueTest ==
    LET location_id == owner_location_ids[locIdx]
        location_logs == fetch_today_filtered_logs(location_id, store, now)
        an == analyze_data(location_logs, now)
    IN  /\ locIdx' = locIdx + 1
        /\ fetchTrace' = Append(fetchTrace,
              [owner |-> idx, location_id |-> location_id,
               raised |-> FALSE, count |-> Len(location_logs),
               window |-> ist_day_utc_bounds(now), rows |-> location_logs,
               analysis |-> IF Len(location_logs) > 0 THEN an ELSE NotAnalysed])
        /\ IF Len(location_logs) > 0 /\ ~an.raised /\ an.totalRevenue > 0
           THEN /\ has_any_data' = TRUE
                /\ all_logs' = all_logs \o location_logs
                /\ location_data' = DictSet(location_data, location_id,
                           [key |-> location_id, analysis |-> an,
                            logs |-> location_logs,
                            location_name |-> LocationName(location_id)])
           ELSE UNCHANGED <<location_data, has_any_data, all_logs>>

\* one iteration of the location loop in which the fetch returns
FetchReturned ==
    LET location_id == owner_location_ids[locIdx]
        location_logs == fetch_today_filtered_logs(location_id, store, now)
        an == analyze_data(location_logs, now)
    IN  /\ locIdx' = locIdx + 1
        /\ fetchTrace' = Append(fetchTrace,
              [owner |-> idx, location_id |-> location_id,
               raised |-> FALSE, count |-> Len(location_logs),
               window |-> ist_day_utc_bounds(now), rows |-> location_logs,
               analysis |-> IF Len(location_logs) > 0 THEN an ELSE NotAnalysed])
        /\ IF Len(location_logs) > 0
           THEN /\ has_any_data' = TRUE
                /\ all_logs' = all_logs \o location_logs
                /\ IF an.raised
                   THEN UNCHANGED location_data
                   ELSE location_data' = DictSet(location_data, location_id,
                           [key |-> location_id, analysis |-> an,
                            logs |-> location_logs,
                            location_name |-> LocationName(location_id)])
           ELSE UNCHANGED <<location_data, has_any_data, all_logs>>

FetchLocation ==
    /\ pc = "fetch"
    /\ locIdx <= Len(owner_location_ids)
    /\ \/ FetchReturned /\ UNCHANGED faults
       \/ faults < MaxFaults /\ faults' = faults + 1 /\ FetchRaised
    /\ UNCHANGED <<pc, idx, response, resolveVars, owner_location_ids, tallyVars,
                   outbox, analyzeVars, sesVars, now, windowVars>>

LocationsFetched == pc = "fetch" /\ locIdx > Len(owner_location_ids)

FailedOutcome(owner, msg) ==
    [owner |-> get_owner_display_name(owner),
     email |-> owner.email,
     status |-> "failed",
     error |-> msg,
     templateUsed |-> owner.templateno,
     timezone |-> owner.timezone]

\* a per-owner exception that is not caught: it reaches the outer handler
RecordFailure_Propagate(owner, msg) ==
    /\ pc' = "done"
    /\ response' = ErrorResponse(500, msg)
    /\ UNCHANGED <<idx, emails_failed, email_results, emails_sent, emails_skipped,
                   total_revenue_summary, total_records_summary>>

\* an except clause that adds the fetched records of the owner to the run total
RecordFailure_CountTotals(owner, msg) ==
    /\ emails_failed' = emails_failed + 1
    /\ email_results' = Append(email_results, FailedOutcome(owner, msg))
    /\ total_records_summary' = total_records_summary + Len(all_logs)
    /\ pc' = "owner"
    /\ idx' = idx + 1
    /\ UNCHANGED <<response, emails_sent, emails_skipped, total_revenue_summary>>

\* the except clause of a per-owner try block
RecordFailure(owner, msg) ==
    /\ emails_failed' = emails_failed + 1
    /\ email_results' = Append(email_results, FailedOutcome(owner, msg))
    /\ pc' = "owner"
    /\ idx' = idx + 1
    /\ UNCHANGED <<response, emails_sent, emails_skipped,
                   total_revenue_summary, total_records_summary>>

\* if not has_any_data: the no-data notification
SendNoData ==
    /\ LocationsFetched
    /\ ~has_any_data
    /\ LET owner == owners[idx] IN
       \/ /\ outbox' = Append(outbox,
                [to |-> owner.email, kind |-> "no-data", owner |-> idx,
                 attachments |-> <<>>, delivered |-> TRUE])
          /\ emails_sent' = emails_sent + 1
          /\ email_results' = Append(email_results,
                [owner |-> get_owner_display_name(owner),
                 email |-> owner.email,
                 status |-> "success",
                 recordCount |-> 0,
                 revenue |-> 0,
                 locations |-> Len(owner_location_ids),
                 emailType |-> "no-data",
                 templateUsed |-> owner.templateno,
                 timezone |-> owner.timezone])
          /\ pc' = "owner"
          /\ idx' = idx + 1
          /\ UNCHANGED <<response, emails_failed, emails_skipped,
                         total_revenue_summary, total_records_summary, faults>>
       \/ /\ faults < MaxFaults
          /\ faults' = faults + 1
          /\ outbox' = Append(outbox,
                [to |-> owner.email, kind |-> "no-data", owner |-> idx,
                 attachments |-> <<>>, delivered |-> FALSE])
          /\ RecordFailure(owner, "Failed to send email via SES")
    /\ UNCHANGED <<resolveVars, ownerVars, fetchTrace, analyzeVars, sesVars, now, windowVars>>

RECURSIVE SumTotalRevenue(_, _)
SumTotalRevenue(dict, i) ==
    IF i > Len(dict) THEN 0
    ELSE dict[i].analysis.totalRevenue + SumTotalRevenue(dict, i + 1)

\* the exception raised while the report body is built, "" when none:
\* generate_multi_location_report_html divides by the consolidated revenue for
\* every entry; the single-location branch takes list(location_data.values())[0]
RenderError(dict, is_multi_location) ==
    IF is_multi_location
    THEN IF Len(dict) > 0 /\ SumTotalRevenue(dict, 1) = 0
         THEN "division by zero" ELSE ""
    ELSE IF Len(dict) = 0 THEN "list index out of range" ELSE ""

\* three CSV attachments per entry of location_data
RECURSIVE Attachments(_, _)
Attachments(dict, i) ==
    IF i > Len(dict) THEN <<>>
    ELSE <<[file |-> "report", location |-> dict[i].location_name],
           [file |-> "payment", location |-> dict[i].location_name],
           [file |-> "service", location |-> dict[i].location_name]>>
         \o Attachments(dict, i + 1)

\* the report with data
SendReport ==
    /\ LocationsFetched
    /\ has_any_data
    /\ LET owner == owners[idx]
           is_multi_location == Len(owner_location_ids) > 1
           err == RenderError(location_data, is_multi_location)
           attachments == Attachments(location_data, 1)
           total_revenue_owner == SumTotalRevenue(location_data, 1)
           total_records_owner == Len(all_logs)
       IN
       IF err # ""
       THEN /\ RecordFailure(owner, err)
            /\ UNCHANGED <<outbox, faults>>
       ELSE
       \/ /\ outbox' = Append(outbox,
                [to |-> owner.email, kind |-> "report", owner |-> idx,
                 attachments |-> attachments, delivered |-> TRUE])
          /\ emails_sent' = emails_sent + 1
          /\ total_revenue_summary' = total_revenue_summary + total_revenue_owner
          /\ total_records_summary' = total_records_summary + total_records_owner
          /\ email_results' = Append(email_results,
                [owner |-> get_owner_display_name(owner),
                 email |-> owner.email,
                 status |-> "success",
                 recordCount |-> total_records_owner,
                 revenue |-> total_revenue_owner,
                 locations |-> Len(location_data),
                 attachments |-> Len(attachments),
                 templateUsed |-> owner.templateno,
                 timezone |-> owner.timezone,
                 emailType |-> IF is_multi_location THEN "multi-location"
                               ELSE "single-location"])
          /\ pc' = "owner"
          /\ idx' = idx + 1
          /\ UNCHANGED <<response, emails_failed, emails_skipped, faults>>
       \/ /\ faults < MaxFaults
          /\ faults' = faults + 1
          /\ outbox' = Append(outbox,
                [to |-> owner.email, kind |-> "report", owner |-> idx,
                 attachments |-> attachments, delivered |-> FALSE])
          /\ RecordFailure(owner, "Failed to send email via SES")
    /\ UNCHANGED <<resolveVars, ownerVars, fetchTrace, analyzeVars, sesVars, now, windowVars>>

\* Summary without the try around the summary send
Summary_Propagate ==
    /\ pc = "owner"
    /\ idx > Len(owners)
    /\ \/ /\ outbox' = Append(outbox,
                [to |-> "SES_VERIFIED_FROM", kind |-> "summary", owner |-> 0,
                 attachments |-> <<>>, delivered |-> TRUE])
          /\ response' = [success |-> TRUE, status |-> 200,
                          emailsSent |-> emails_sent,
                          emailsFailed |-> emails_failed,
                          emailsSkipped |-> emails_skipped,
                          totalOwners |-> Len(owners),
                          totalRevenue |-> total_revenue_summary,
                          totalRecords |-> total_records_summary,
                          results |-> email_results]
          /\ UNCHANGED faults
       \/ /\ faults < MaxFaults
          /\ faults' = faults + 1
          /\ outbox' = Append(outbox,
                [to |-> "SES_VERIFIED_FROM", kind |-> "summary", owner |-> 0,
                 attachments |-> <<>>, delivered |-> FALSE])
          /\ response' = ErrorResponse(500, "Failed to send email via SES")
    /\ pc' = "done"
    /\ UNCHANGED <<idx, resolveVars, ownerVars, tallyVars, fetchTrace,
                   analyzeVars, sesVars, now, windowVars>>

\* after the loop: the summary email to the sender address, then the response
Summary ==
    /\ pc = "owner"
    /\ idx > Len(owners)
    /\ \/ /\ outbox' = Append(outbox,
                [to |-> "SES_VERIFIED_FROM", kind |-> "summary", owner |-> 0,
                 attachments |-> <<>>, delivered |-> TRUE])
          /\ UNCHANGED faults
       \/ /\ faults < MaxFaults
          /\ faults' = faults + 1
          /\ outbox' = Append(outbox,
                [to |-> "SES_VERIFIED_FROM", kind |-> "summary", owner |-> 0,
                 attachments |-> <<>>, delivered |-> FALSE])
    /\ response' = [success |-> TRUE, status |-> 200,
                    emailsSent |-> emails_sent,
                    emailsFailed |-> emails_failed,
                    emailsSkipped |-> emails_skipped,
                    totalOwners |-> Len(owners),
                    totalRevenue |-> total_revenue_summary,
                    totalRecords |-> total_records_summary,
                    results |-> email_results]
    /\ pc' = "done"
    /\ UNCHANGED <<idx, resolveVars, ownerVars, tallyVars, fetchTrace,
                   analyzeVars, sesVars, now, windowVars>>

Next ==
    \/ Unauthorized
    \/ Start
    \/ Resolve
    \/ ResolveQueryFails
    \/ VerifySes
    \/ SkipOwner
    \/ StartOwner
    \/ FetchLocation
    \/ SendNoData
    \/ SendReport
    \/ Summary

Spec == Init /\ [][Next]_vars

----------------------------------------------------------------------------
(* SpecSes: get_ses_client called by the request threads of app.run(...,   *)
(* threaded=True); each step is one access to the module global            *)

InitSes ==
    /\ IdleSes
    /\ now = T1015
    /\ IdleAnalyze
    /\ IdleWindow
    /\ IdleRun

\* a thread enters get_ses_client
CallGetSesClient(t) ==
    /\ tpc[t] = "idle"
    /\ tcalls[t] < MaxCalls
    /\ tcalls' = [tcalls EXCEPT ![t] = @ + 1]
    /\ tpc' = [tpc EXCEPT ![t] = "test"]
    /\ UNCHANGED <<ses_client, built, tmade, returned>>
    /\ UNCHANGED <<analyzeVars, now, windowVars, runVars>>

\* if ses_client is None:
TestNone(t) ==
    /\ tpc[t] = "test"
    /\ tpc' = [tpc EXCEPT ![t] = IF ses_client = 0 THEN "construct" ELSE "return"]
    /\ UNCHANGED <<ses_client, built, tcalls, tmade, returned>>
    /\ UNCHANGED <<analyzeVars, now, windowVars, runVars>>

\* boto3.client('ses', ...) builds a new client
Construct(t) ==
    /\ tpc[t] = "construct"
    /\ built' = built + 1
    /\ tmade' = [tmade EXCEPT ![t] = built + 1]
    /\ tpc' = [tpc EXCEPT ![t] = "store"]
    /\ UNCHANGED <<ses_client, tcalls, returned>>
    /\ UNCHANGED <<analyzeVars, now, windowVars, runVars>>

\* ses_client = <the new client>
StoreGlobal(t) ==
    /\ tpc[t] = "store"
    /\ ses_client' = tmade[t]
    /\ tmade' = [tmade EXCEPT ![t] = 0]
    /\ tpc' = [tpc EXCEPT ![t] = "return"]
    /\ UNCHANGED <<built, tcalls, returned>>
    /\ UNCHANGED <<analyzeVars, now, windowVars, runVars>>

\* return ses_client
ReturnClient(t) ==
    /\ tpc[t] = "return"
    /\ returned' = returned \cup {ses_client}
    /\ tpc' = [tpc EXCEPT ![t] = "idle"]
    /\ UNCHANGED <<ses_client, built, tcalls, tmade>>
    /\ UNCHANGED <<analyzeVars, now, windowVars, runVars>>

NextSes ==
    \E t \in Threads :
        \/ CallGetSesClient(t)
        \/ TestNone(t)
        \/ Construct(t)
        \/ StoreGlobal(t)
        \/ ReturnClient(t)

SpecSes == InitSes /\ [][NextSes]_vars

----------------------------------------------------------------------------
(* Properties of analyze_data                                              *)

RECURSIVE SumRevenue(_, _)
SumRevenue(seq, i) == IF i > Len(seq) THEN 0 ELSE seq[i].revenue + SumRevenue(seq, i + 1)

RECURSIVE SumCount(_, _)
SumCount(seq, i) == IF i > Len(seq) THEN 0 ELSE seq[i].count + SumCount(seq, i + 1)

\* a fraction denotes a number in [0, 100]
InPercentRange(f) == f.d > 0 /\ 0 <= f.n /\ f.n <= 100 * f.d
IsZeroFrac(f) == f.n = 0

\* C2: whenever analyze_data returns, the revenues of paymentModeBreakdown and the
\* revenues of serviceBreakdown each sum to totalRevenue, which is the sum of the
\* input amounts.
C2_RevenueConservation ==
    Returned =>
        /\ SumRevenue(analysis.paymentModeBreakdown, 1) = analysis.totalRevenue
        /\ SumRevenue(analysis.serviceBreakdown, 1) = analysis.totalRevenue
        /\ analysis.totalRevenue = SumAmounts(logs, 1)

\* two records with nonzero amounts in two payment groups and one service group
C2_Witness ==
    /\ Returned
    /\ Len(logs) = 2
    /\ Len(analysis.paymentModeBreakdown) = 2
    /\ Len(analysis.serviceBreakdown) = 1
    /\ analysis.serviceBreakdown[1].count = 2
    /\ analysis.totalRevenue = 4

\* C3: whenever analyze_data returns, the counts of paymentModeBreakdown, of
\* serviceBreakdown and of vehicleDistribution each sum to totalVehicles, which is
\* the number of input records.
C3_CountConservation ==
    Returned =>
        /\ SumCount(analysis.paymentModeBreakdown, 1) = analysis.totalVehicles
        /\ SumCount(analysis.serviceBreakdown, 1) = analysis.totalVehicles
        /\ SumCount(analysis.vehicleDistribution, 1) = analysis.totalVehicles
        /\ analysis.totalVehicles = Len(logs)

\* two records falling in two vehicle groups and one service group
C3_Witness ==
    /\ Returned
    /\ Len(logs) >= 2
    /\ Len(analysis.vehicleDistribution) >= 2
    /\ Len(analysis.serviceBreakdown) = 1

\* C4: whenever analyze_data returns, every payment percentage, service
\* revenueShare and vehicle percentage lies in [0,100], and is 0 when its
\* denominator (totalRevenue, totalVehicles) is 0.
C4_PercentageValidity ==
    Returned =>
        /\ \A k \in 1 .. Len(analysis.paymentModeBreakdown) :
              /\ InPercentRange(analysis.paymentModeBreakdown[k].percentage)
              /\ analysis.totalRevenue = 0 =>
                     IsZeroFrac(analysis.paymentModeBreakdown[k].percentage)
        /\ \A k \in 1 .. Len(analysis.serviceBreakdown) :
              /\ InPercentRange(analysis.serviceBreakdown[k].revenueShare)
              /\ analysis.totalRevenue = 0 =>
                     IsZeroFrac(analysis.serviceBreakdown[k].revenueShare)
        /\ \A k \in 1 .. Len(analysis.vehicleDistribution) :
              /\ InPercentRange(analysis.vehicleDistribution[k].percentage)
              /\ analysis.totalVehicles = 0 =>
                     IsZeroFrac(analysis.vehicleDistribution[k].percentage)

\* the displays of the 24 real hourly slots
HourDisplays == {HourDisplay(h) : h \in Hours}

\* C8: analyze_data([]) returns zero totals, four empty lists, and a "none"
\* sentinel (a value that names no hour, no service) for peak hour and top service.
C8_EmptyInput ==
    (Analysed /\ logs = <<>>) =>
        /\ ~analysis.raised
        /\ analysis.totalRevenue = 0
        /\ analysis.totalVehicles = 0
        /\ IsZeroFrac(analysis.avgService)
        /\ analysis.paymentModeBreakdown = <<>>
        /\ analysis.serviceBreakdown = <<>>
        /\ analysis.vehicleDistribution = <<>>
        /\ analysis.hourlyBreakdown = <<>>
        /\ analysis.topService = "N/A"
        /\ analysis.peakHour \notin HourDisplays

----------------------------------------------------------------------------
(* Properties of the day window                                            *)

\* the rows, among the first n of the table, that a fetch for location_id made on
\* IST day d has to return
DueRows(n, location_id, d) ==
    {i \in 1 .. n :
        /\ store[i].approval_status = "approved"
        /\ location_id # None => store[i].loc_id = location_id
        /\ IstDay(store[i].created_at[1]) = d}

\* C6: the window is [IST midnight, IST midnight + 24h): its bounds are 24 hours
\* apart with the start at IST midnight, a fetch returns exactly the approved
\* rows of the asked location created on the IST day of the call, and no row is
\* ever returned by fetches of two different days.
C6_HalfOpenDayWindow ==
    /\ ist_day_utc_bounds(now).end - ist_day_utc_bounds(now).start = DAY_MIN
    /\ (ist_day_utc_bounds(now).start + IST_OFFSET_MIN) % DAY_MIN = 0
    /\ ist_day_utc_bounds(now).start <= now
    /\ now < ist_day_utc_bounds(now).end
    /\ lastFetch # NoFetch =>
          {lastFetch.rows[k].id : k \in 1 .. Len(lastFetch.rows)}
              = DueRows(lastFetch.n, lastFetch.location_id, IstDay(lastFetch.at))
    /\ \A i \in 1 .. Len(store) :
          fetchedOn[i] \subseteq {IstDay(store[i].created_at[1])}

\* a row stamped in the last minute of an IST day was returned by a fetch of that
\* day, and a fetch made on the next day did not return it
C6_Witness ==
    /\ lastFetch # NoFetch
    /\ \E i \in 1 .. lastFetch.n :
          /\ (store[i].created_at[1] + IST_OFFSET_MIN) % DAY_MIN = DAY_MIN - 1
          /\ fetchedOn[i] = {IstDay(store[i].created_at[1])}
          /\ IstDay(lastFetch.at) = IstDay(store[i].created_at[1]) + 1
          /\ store[i].approval_status = "approved"
          /\ lastFetch.location_id = None

----------------------------------------------------------------------------
(* Properties of send_reports                                              *)

\* the run has returned its 200 response
Completed == pc = "done" /\ response.status = 200

\* owners whose iteration of the owner loop has ended
Processed == 1 .. Len(email_results)

\* the owner loop appends one outcome per iteration, in owner order
OutcomePerOwner ==
    /\ pc \in {"owner", "fetch"} => Len(email_results) = idx - 1
    /\ Completed => Len(email_results) = Len(owners)
    /\ \A j \in Processed : email_results[j].email = owners[j].email

\* the send of owner j's email raised
SendRaisedFor(j) ==
    \E m \in 1 .. Len(outbox) : outbox[m].owner = j /\ ~outbox[m].delivered

\* a fetch of owner j raised
FetchRaisedFor(j) ==
    \E m \in 1 .. Len(fetchTrace) : fetchTrace[m].owner = j /\ fetchTrace[m].raised

\* what the table holds today for the location ids of an owner
TodayRows(location_id) == fetch_today_filtered_logs(location_id, store, now)

RECURSIVE CountTodayRows(_, _)
CountTodayRows(ids, i) ==
    IF i > Len(ids) THEN 0 ELSE Len(TodayRows(ids[i])) + CountTodayRows(ids, i + 1)

\* C1: when the send of owner k raises, k's outcome is 'failed' with the
\* exception's message, the run still ends with one outcome per owner and
\* success = True, and every owner that met no failure of its own has the outcome
\* it has in a run without failures (skipped, no-data, or a report counting
\* today's rows of its locations).
C1_OwnerIsolation ==
    \A k \in 1 .. Len(owners) :
        SendRaisedFor(k) =>
            /\ pc # "done" \/ response.success
            /\ OutcomePerOwner
            /\ k \in Processed =>
                  /\ email_results[k].status = "failed"
                  /\ email_results[k].error = "Failed to send email via SES"
            /\ \A j \in Processed \ {k} :
                  (~SendRaisedFor(j) /\ ~FetchRaisedFor(j)) =>
                      LET ids == get_owner_locations(owners[j], LocationsTable)
                          rows == CountTodayRows(ids, 1)
                          out == email_results[j]
                      IN  IF owners[j].email = None \/ ids = <<>>
                          THEN out.status = "skipped"
                          ELSE IF rows = 0
                          THEN out.status = "success" /\ out.emailType = "no-data"
                          ELSE \/ out.status = "success" /\ out.recordCount = rows
                               \/ out.status = "failed"
                                  /\ out.error \in {"division by zero",
                                                    "list index out of range"}

\* a finished run of two or more owners in which the send of one owner raised and
\* the owner after it was sent its report
C1_Witness ==
    /\ Completed
    /\ \E k \in 1 .. Len(owners) - 1 :
          /\ SendRaisedFor(k)
          /\ email_results[k].status = "failed"
          /\ email_results[k + 1].status = "success"
          /\ email_results[k + 1].emailType # "no-data"

\* the branch owner j took: the no-data notification or the report
TookNoDataBranch(j) ==
    \/ \E m \in 1 .. Len(outbox) : outbox[m].owner = j /\ outbox[m].kind = "no-data"
TookReportBranch(j) ==
    /\ email_results[j].status # "skipped"
    /\ ~TookNoDataBranch(j)

\* the fetches made for owner j
FetchesOf(j) == {m \in 1 .. Len(fetchTrace) : fetchTrace[m].owner = j}

\* C5: an owner that is not skipped takes the no-data branch exactly when none of
\* the fetches for its assigned locations returned a record; with one location at
\* zero records and another at one record or more it takes the report branch.
C5_NoDataDetection ==
    \A j \in Processed :
        email_results[j].status # "skipped" =>
            /\ TookNoDataBranch(j) <=>
                  \A m \in FetchesOf(j) : fetchTrace[m].count = 0
            /\ (\E m \in FetchesOf(j) : fetchTrace[m].count >= 1) => TookReportBranch(j)
            /\ TookNoDataBranch(j) =>
                  \A m \in 1 .. Len(outbox) :
                      outbox[m].owner = j =>
                          outbox[m].kind = "no-data" /\ outbox[m].attachments = <<>>

\* an owner with one location that returned nothing and another that returned a
\* single record of amount 0 took the report branch
C5_Witness ==
    \E j \in Processed :
        /\ TookReportBranch(j)
        /\ \E m \in FetchesOf(j) : ~fetchTrace[m].raised /\ fetchTrace[m].count = 0
        /\ \E m \in FetchesOf(j) :
              /\ fetchTrace[m].count = 1
              /\ TodayRows(fetchTrace[m].location_id)[1].Amount = <<0>>

\* the location ids of the fetches made so far for the owner being processed
CurrentFetches ==
    LET ms == FetchesOf(idx)
        first == IF ms = {} THEN 1 ELSE CHOOSE m \in ms : \A n \in ms : m <= n
    IN  [p \in 1 .. Cardinality(ms) |-> fetchTrace[first + p - 1]]

DictKeys(dict) == {dict[i].key : i \in 1 .. Len(dict)}

\* C7: while an owner's locations are fetched, a raised fetch puts nothing in
\* location_data, the fetches made are exactly the assigned locations in order up
\* to the loop position (all of them once the loop ends), every returned non-empty
\* analysable result is in location_data, and an owner is 'failed' only when its
\* send raised or its report could not be built, never for the fetch failure.
C7_FetchContainment ==
    /\ pc = "fetch" =>
          /\ Len(CurrentFetches) = locIdx - 1
          /\ \A p \in 1 .. Len(CurrentFetches) :
                /\ CurrentFetches[p].location_id = owner_location_ids[p]
                /\ ( /\ ~CurrentFetches[p].raised
                     /\ CurrentFetches[p].count > 0
                     /\ AnalyzeError(TodayRows(owner_location_ids[p])) = "" )
                   => owner_location_ids[p] \in DictKeys(location_data)
          /\ \A key \in DictKeys(location_data) :
                \E p \in 1 .. Len(CurrentFetches) :
                    /\ CurrentFetches[p].location_id = key
                    /\ ~CurrentFetches[p].raised
                    /\ CurrentFetches[p].count > 0
    /\ \A j \in Processed :
          email_results[j].status # "skipped" =>
              /\ Cardinality(FetchesOf(j))
                    = Len(get_owner_locations(owners[j], LocationsTable))
              /\ (FetchRaisedFor(j) /\ email_results[j].status = "failed") =>
                    \/ SendRaisedFor(j)
                    \/ email_results[j].error \in {"division by zero",
                                                   "list index out of range"}

\* the first of an owner's two fetches raised, the second returned data, and the
\* owner was sent a report built from the second location alone
C7_Witness ==
    \E j \in Processed :
        /\ email_results[j].status = "success"
        /\ email_results[j].emailType = "multi-location"
        /\ email_results[j].locations = 1
        /\ \E m \in FetchesOf(j) :
              /\ fetchTrace[m].raised
              /\ m + 1 \in FetchesOf(j)
              /\ ~fetchTrace[m + 1].raised
              /\ fetchTrace[m + 1].count > 0
              /\ fetchTrace[m + 1].location_id # fetchTrace[m].location_id

\* recipient resolution has run
Resolved == pc \notin {"idle", "resolve"} /\ paths # {}

\* recipient resolution has returned its owner list
OwnersResolved == Resolved /\ (pc = "done" => response.status = 200)

OwnerRowIds(ids) ==
    {usersTable[i].id : i \in {n \in 1 .. Len(usersTable) :
                                  usersTable[n].role = "owner" /\ usersTable[n].id \in ids}}

\* C9: a run that reaches recipient resolution executes exactly one path:
\* email_override gives one synthetic owner and no users-table query; otherwise a
\* non-empty users payload gives the listed users of role owner; otherwise every
\* user of role owner.
C9_RecipientResolution ==
    Resolved =>
        /\ Cardinality(paths) = 1
        /\ request.email_override # None =>
              /\ paths = {"override"}
              /\ userQueries = 0
              /\ \A i \in 1 .. Len(usersTable), j \in 1 .. Len(owners) :
                    owners[j].id # usersTable[i].id
              /\ Len(owners) = 1
              /\ owners[1].id = "override"
              /\ owners[1].email = request.email_override
        /\ (request.email_override = None /\ request.users # <<>>) =>
              /\ paths = {"schedule"}
              /\ OwnersResolved =>
                    {owners[i].id : i \in 1 .. Len(owners)}
                        = OwnerRowIds({request.users[k].user_id :
                                          k \in 1 .. Len(request.users)})
        /\ (request.email_override = None /\ request.users = <<>>) =>
              /\ paths = {"fallback"}
              /\ OwnersResolved =>
                    {owners[i].id : i \in 1 .. Len(owners)}
                        = OwnerRowIds({usersTable[i].id : i \in 1 .. Len(usersTable)})

\* a finished run whose request carried both email_override and a users payload
\* naming an owner of the table
C9_Witness ==
    /\ Completed
    /\ request.email_override # None
    /\ request.users # <<>>
    /\ OwnerRowIds({request.users[1].user_id}) # {}
    /\ paths = {"override"}
    /\ Len(email_results) = 1

RECURSIVE CountStatus(_, _, _)
CountStatus(results, i, status) ==
    IF i > Len(results) THEN 0
    ELSE (IF results[i].status = status THEN 1 ELSE 0) + CountStatus(results, i + 1, status)

\* C10: an owner is skipped exactly when it has no email or its location list is
\* empty; it then has one 'skipped' outcome with a reason, no fetch and no send
\* were made for it, only the skipped counter moved, and the loop went on.
C10_SkipRule ==
    /\ OutcomePerOwner
    /\ emails_skipped = CountStatus(email_results, 1, "skipped")
    /\ emails_sent + emails_failed = Len(email_results) - emails_skipped
    /\ \A j \in Processed :
          LET skip == \/ owners[j].email = None
                      \/ get_owner_locations(owners[j], LocationsTable) = <<>>
          IN  /\ skip <=> email_results[j].status = "skipped"
              /\ skip =>
                    /\ email_results[j].reason
                          \in {"No email address", "No locations assigned"}
                    /\ FetchesOf(j) = {}
                    /\ \A m \in 1 .. Len(outbox) : outbox[m].owner # j

\* a finished run in which an owner without locations was skipped and the owner
\* after it was sent an email
C10_Witness ==
    /\ Completed
    /\ \E j \in 1 .. Len(owners) - 1 :
          /\ email_results[j].status = "skipped"
          /\ email_results[j].reason = "No locations assigned"
          /\ email_results[j + 1].status = "success"
          /\ emails_skipped = 1
          /\ emails_sent = 1

\* the summary emails attempted so far
SummaryMails == {m \in 1 .. Len(outbox) : outbox[m].kind = "summary"}

\* the run got past the SES check into the owner loop
ReachedOwnerLoop == idx >= 1

\* C11: no summary email is attempted while owners are being processed or in a run
\* that never reached the owner loop; a run that reached it ends with exactly one
\* summary email, attempted last, to the sender (operator) address, after every
\* owner has its outcome, and answers success = True with the counters and the
\* outcome list of the owner loop whether or not that send raised.
C11_SummaryDispatch ==
    /\ pc # "done" => SummaryMails = {}
    /\ (pc = "done" /\ ~ReachedOwnerLoop) => SummaryMails = {}
    /\ (pc = "done" /\ ReachedOwnerLoop) =>
          /\ SummaryMails = {Len(outbox)}
          /\ outbox[Len(outbox)].to = "SES_VERIFIED_FROM"
          /\ outbox[Len(outbox)].attachments = <<>>
          /\ Len(email_results) = Len(owners)
          /\ response.success
          /\ response.status = 200
          /\ response.results = email_results
          /\ response.emailsSent = CountStatus(email_results, 1, "success")
          /\ response.emailsFailed = CountStatus(email_results, 1, "failed")
          /\ response.emailsSkipped = CountStatus(email_results, 1, "skipped")
          /\ response.totalOwners = Len(owners)

\* a finished run with a processed owner whose summary send raised
C11_Witness ==
    /\ pc = "done"
    /\ Len(email_results) >= 1
    /\ email_results[1].status = "success"
    /\ SummaryMails # {}
    /\ ~outbox[Len(outbox)].delivered
    /\ response.success
    /\ response.emailsSent = 1

\* the exceptions raised by the checks made before recipient resolution and by the
\* SES quota check
ConfigErrors == (StartOutcomes \ {"ok"}) \cup {"SES configuration invalid"}

\* C12: a run answered with a configuration error has ended with success = False
\* and 500, and has made no fetch, recorded no owner outcome and attempted no
\* owner email and no summary email.
C12_ConfigErrorsAbort ==
    (response.status = 500 /\ response.error \in ConfigErrors) =>
        /\ pc = "done"
        /\ ~response.success
        /\ outbox = <<>>
        /\ fetchTrace = <<>>
        /\ email_results = <<>>
        /\ emails_sent = 0

\* the SES quota check failed in a run that had resolved an owner with an email
\* address and a location
C12_Witness ==
    /\ pc = "done"
    /\ response.status = 500
    /\ response.error = "SES configuration invalid"
    /\ \E j \in 1 .. Len(owners) :
          /\ owners[j].email # None
          /\ get_owner_locations(owners[j], LocationsTable) # <<>>
    /\ outbox = <<>>

----------------------------------------------------------------------------
(* Further properties of analyze_data                                      *)

\* C13: analyze_data returns an Analysis for every list of canonical records, any
\* field of which may be null, and returns the same Analysis when called again.
C13_TotalDeterministic ==
    Analysed =>
        /\ ~analysis.raised
        /\ analysis = analyze_data(logs, now)

\* the IST hour of a record's created_at; the current IST hour when it is absent
RecordHour(log) ==
    IF log.created_at = NoNum
    THEN ((now + IST_OFFSET_MIN) % DAY_MIN) \div HOUR_MIN
    ELSE ((log.created_at[1] + IST_OFFSET_MIN) % DAY_MIN) \div HOUR_MIN

RECURSIVE HourCount(_, _, _)
HourCount(ls, i, h) ==
    IF i > Len(ls) THEN 0
    ELSE (IF RecordHour(ls[i]) = h THEN 1 ELSE 0) + HourCount(ls, i + 1, h)

RECURSIVE HourAmount(_, _, _)
HourAmount(ls, i, h) ==
    IF i > Len(ls) THEN 0
    ELSE (IF RecordHour(ls[i]) = h THEN ls[i].Amount[1] ELSE 0) + HourAmount(ls, i + 1, h)

\* C14: whenever analyze_data returns, each of the 24 hours is in hourlyBreakdown
\* exactly when its count or amount is nonzero, its slot holds the count and the
\* amount of exactly the records whose created_at falls in that IST hour, the
\* slots' counts sum to the number of records, and the slots are in ascending
\* hour order.
C14_HourlyBucketing ==
    Returned =>
        LET hb == analysis.hourlyBreakdown IN
        /\ \A h \in Hours :
              /\ (\E k \in 1 .. Len(hb) : hb[k].hour = h)
                    <=> (HourCount(logs, 1, h) # 0 \/ HourAmount(logs, 1, h) # 0)
              /\ \A k \in 1 .. Len(hb) :
                    hb[k].hour = h =>
                        /\ hb[k].count = HourCount(logs, 1, h)
                        /\ hb[k].amount = HourAmount(logs, 1, h)
        /\ \A k \in 1 .. Len(hb) : hb[k].hour \in Hours
        /\ \A k \in 1 .. Len(hb) - 1 : hb[k].hour < hb[k + 1].hour
        /\ SumCount(hb, 1) = Len(logs)

\* a record of 10:15 IST followed by a record of 00:15 IST: two slots, hour 0 first
C14_Witness ==
    /\ Returned
    /\ Len(logs) = 2
    /\ logs[1].created_at = <<T1015>>
    /\ logs[2].created_at = <<T0015>>
    /\ Len(analysis.hourlyBreakdown) = 2
    /\ analysis.hourlyBreakdown[1].hour = 0
    /\ analysis.hourlyBreakdown[2].hour = 10

RECURSIVE ServiceAmount(_, _, _)
ServiceAmount(ls, i, name) ==
    IF i > Len(ls) THEN 0
    ELSE (IF ls[i].service = name THEN ls[i].Amount[1] ELSE 0)
         + ServiceAmount(ls, i + 1, name)

FirstRecordOf(ls, name) ==
    CHOOSE i \in 1 .. Len(ls) :
        ls[i].service = name /\ \A j \in 1 .. i - 1 : ls[j].service # name

\* C15: whenever analyze_data returns for a non-empty list, peakHour is the lowest
\* hour among the slots of maximal revenue and topService is, among the services
\* of maximal revenue, the one whose first record is earliest in the input.
C15_TieBreaking ==
    (Returned /\ logs # <<>>) =>
        /\ \E h \in Hours :
              /\ analysis.peakHour = HourDisplay(h)
              /\ analysis.peakHourRevenue = HourAmount(logs, 1, h)
              /\ \A g \in Hours : HourAmount(logs, 1, g) <= HourAmount(logs, 1, h)
              /\ \A g \in 0 .. h - 1 : HourAmount(logs, 1, g) < HourAmount(logs, 1, h)
        /\ \E i \in 1 .. Len(logs) :
              LET top == logs[i].service IN
              /\ analysis.topService = top
              /\ analysis.topServiceRevenue = ServiceAmount(logs, 1, top)
              /\ \A j \in 1 .. Len(logs) :
                    LET other == logs[j].service IN
                    /\ ServiceAmount(logs, 1, other) <= ServiceAmount(logs, 1, top)
                    /\ (ServiceAmount(logs, 1, other) = ServiceAmount(logs, 1, top)
                        /\ other # top)
                          => FirstRecordOf(logs, top) < FirstRecordOf(logs, other)

\* Polish at 10:15 then Wash at 00:15 with equal amounts: the later record's hour
\* wins the peak, the earlier record's service is the top service
C15_Witness ==
    /\ Returned
    /\ Len(logs) = 2
    /\ logs[1].service = "Polish" /\ logs[1].created_at = <<T1015>>
    /\ logs[2].service = "Wash" /\ logs[2].created_at = <<T0015>>
    /\ logs[1].Amount = logs[2].Amount
    /\ logs[1].Amount[1] > 0
    /\ analysis.peakHour = HourDisplay(0)
    /\ analysis.topService = "Polish"

\* a fraction equal to the decimal tenths / 10
IsTenths(f, tenths) == f.d > 0 /\ f.n * 10 = tenths * f.d

\* C16: for the UPI/Acct1 wash of 500 at 10:15 and the cash wash of 300 at 10:45,
\* analyze_data returns totalRevenue 800, totalVehicles 2, avgService 400, payments
\* [UPI 500/1/62.5% with Acct1 count 1 amount 500; Cash 300/1/37.5%], services
\* [Wash count 2, revenue 800, averagePrice 400] and the single hourly slot 10
\* with count 2 and amount 800.
C16_Scenario ==
    (Analysed /\ logs = <<UpiWashCar, CashWashBike>>) =>
        /\ ~analysis.raised
        /\ analysis.totalRevenue = 800
        /\ analysis.totalVehicles = 2
        /\ IsTenths(analysis.avgService, 4000)
        /\ Len(analysis.paymentModeBreakdown) = 2
        /\ LET upi == analysis.paymentModeBreakdown[1]
               cash == analysis.paymentModeBreakdown[2]
           IN  /\ upi.mode = "UPI" /\ upi.revenue = 500 /\ upi.count = 1
               /\ IsTenths(upi.percentage, 625)
               /\ upi.upiAccounts = <<[key |-> "Acct1", count |-> 1, amount |-> 500]>>
               /\ cash.mode = "Cash" /\ cash.revenue = 300 /\ cash.count = 1
               /\ IsTenths(cash.percentage, 375)
               /\ cash.upiAccounts = <<>>
        /\ Len(analysis.serviceBreakdown) = 1
        /\ analysis.serviceBreakdown[1].name = "Wash"
        /\ analysis.serviceBreakdown[1].count = 2
        /\ analysis.serviceBreakdown[1].revenue = 800
        /\ IsTenths(analysis.serviceBreakdown[1].averagePrice, 4000)
        /\ Len(analysis.hourlyBreakdown) = 1
        /\ analysis.hourlyBreakdown[1].hour = 10
        /\ analysis.hourlyBreakdown[1].count = 2
        /\ analysis.hourlyBreakdown[1].amount = 800

\* analyze_data has returned for the two records of the scenario
C16_Witness ==
    /\ Returned
    /\ logs = <<UpiWashCar, CashWashBike>>
    /\ analysis.totalRevenue = 800

RECURSIVE CountWhere(_, _, _, _)
\* the number of records whose field has one of the given values
CountWhere(ls, i, field, values) ==
    IF i > Len(ls) THEN 0
    ELSE (IF ls[i][field] \in values THEN 1 ELSE 0) + CountWhere(ls, i + 1, field, values)

GroupCount(groups, key) ==
    IF \E k \in 1 .. Len(groups) : groups[k].key = key
    THEN LET k == CHOOSE k \in 1 .. Len(groups) : groups[k].key = key IN groups[k].count
    ELSE 0

\* C19: analyze_data returns for records with null or empty group fields, counting
\* a null or empty payment_mode in the 'cash' group and a null service or
\* vehicle_type in the 'Unknown' group.
C19_GroupKeyDefaults ==
    Analysed =>
        /\ ~analysis.raised
        /\ GroupCount(analysis.paymentModeBreakdown, "cash")
              = CountWhere(logs, 1, "payment_mode", {None, "", "Cash"})
        /\ GroupCount(analysis.serviceBreakdown, "Unknown")
              = CountWhere(logs, 1, "service", {None})
        /\ GroupCount(analysis.vehicleDistribution, "Unknown")
              = CountWhere(logs, 1, "vehicle_type", {None})

RECURSIVE SumAmountsOrZero(_, _)
SumAmountsOrZero(ls, i) ==
    IF i > Len(ls) THEN 0
    ELSE (IF ls[i].Amount = NoNum THEN 0 ELSE ls[i].Amount[1])
         + SumAmountsOrZero(ls, i + 1)

\* C20: analyze_data returns for records without amount, counting them with
\* amount 0: totalRevenue and the group revenues are the sums of the amounts
\* present, and every record is counted.
C20_MissingAmountIsZero ==
    Analysed =>
        /\ ~analysis.raised
        /\ analysis.totalRevenue = SumAmountsOrZero(logs, 1)
        /\ SumRevenue(analysis.paymentModeBreakdown, 1) = SumAmountsOrZero(logs, 1)
        /\ SumRevenue(analysis.serviceBreakdown, 1) = SumAmountsOrZero(logs, 1)
        /\ analysis.totalVehicles = Len(logs)
        /\ SumCount(analysis.paymentModeBreakdown, 1) = Len(logs)

----------------------------------------------------------------------------
(* Further properties of send_reports                                      *)

\* the locations whose fetch for owner j returned at least one record
ContributingLocations(j) ==
    {fetchTrace[m].location_id : m \in {n \in FetchesOf(j) : fetchTrace[n].count >= 1}}

\* C17: every report email carries exactly 3 attachments per location that
\* returned at least one record for its owner; the no-data notification and the
\* summary email carry none.
C17_AttachmentCount ==
    \A m \in 1 .. Len(outbox) :
        IF outbox[m].kind = "report"
        THEN Len(outbox[m].attachments)
                = 3 * Cardinality(ContributingLocations(outbox[m].owner))
        ELSE outbox[m].attachments = <<>>

\* the fetches made for owner j, in order, without the owner field
FetchViewOf(j) ==
    LET ms == FetchesOf(j)
        first == IF ms = {} THEN 1 ELSE CHOOSE m \in ms : \A n \in ms : m <= n
    IN  [p \in 1 .. Cardinality(ms) |->
            [location_id |-> fetchTrace[first + p - 1].location_id,
             raised |-> fetchTrace[first + p - 1].raised,
             window |-> fetchTrace[first + p - 1].window,
             rows |-> fetchTrace[first + p - 1].rows,
             analysis |-> fetchTrace[first + p - 1].analysis]]

\* what an outcome says apart from the owner's name, address and echoed settings
OutcomeFigures(out) ==
    IF out.status = "success"
    THEN <<out.status, out.recordCount, out.revenue, out.locations, out.emailType>>
    ELSE IF out.status = "failed" THEN <<out.status, out.error>>
    ELSE <<out.status, out.reason>>

\* C18: two owners of one run with the same assigned locations and different
\* timezones, neither of which met a raised fetch or send, have the same fetch
\* windows, the same fetched records and the same analyses (hourly buckets
\* included) location by location, and outcomes that differ only in the echoed
\* owner fields; each outcome echoes its owner's timezone.
C18_TimezoneNonInterference ==
    /\ \A j \in Processed : email_results[j].timezone = owners[j].timezone
    /\ \A i \in Processed, j \in Processed :
          ( /\ owners[i].timezone # owners[j].timezone
            /\ owners[i].assigned_location = owners[j].assigned_location
            /\ (owners[i].email = None) = (owners[j].email = None)
            /\ ~FetchRaisedFor(i) /\ ~FetchRaisedFor(j)
            /\ ~SendRaisedFor(i) /\ ~SendRaisedFor(j) )
          => /\ FetchViewOf(i) = FetchViewOf(j)
             /\ OutcomeFigures(email_results[i]) = OutcomeFigures(email_results[j])

\* an owner on New York time and an owner on UTC, with the same locations, were
\* both sent a report on the same records
C18_Witness ==
    \E i \in Processed, j \in Processed :
        /\ owners[i].timezone = "America/New_York"
        /\ owners[j].timezone = "UTC"
        /\ owners[i].assigned_location = owners[j].assigned_location
        /\ email_results[i].status = "success"
        /\ email_results[j].status = "success"
        /\ email_results[i].recordCount > 0
        /\ email_results[j].recordCount = email_results[i].recordCount
        /\ Len(FetchViewOf(i)) > 0
        /\ FetchViewOf(i)[1].analysis.hourlyBreakdown # <<>>

\* the analyses that entered owner j's location_data: those of the fetches that
\* returned records and whose analysis returned
AnalysedFetches(j) ==
    {m \in FetchesOf(j) : fetchTrace[m].count >= 1 /\ ~fetchTrace[m].analysis.raised}

\* C21: an owner with more than one assigned location whose location_data is not
\* empty and whose every analysed location has revenue 0 is sent the report: its
\* outcome is 'success' unless the send itself raised.
C21_ZeroConsolidatedRevenue ==
    \A j \in Processed :
        ( /\ Len(get_owner_locations(owners[j], LocationsTable)) > 1
          /\ owners[j].email # None
          /\ AnalysedFetches(j) # {}
          /\ \A m \in AnalysedFetches(j) : fetchTrace[m].analysis.totalRevenue = 0
          /\ ~SendRaisedFor(j) )
        => /\ email_results[j].status = "success"
           /\ email_results[j].revenue = 0

----------------------------------------------------------------------------
(* Ordering, sub-accounts and hourly totals of analyze_data                *)

FirstWith(ls, field, value) ==
    CHOOSE i \in 1 .. Len(ls) :
        ls[i][field] = value /\ \A j \in 1 .. i - 1 : ls[j][field] # value

----------------------------------------------------------------------------
(* Locations, counters and totals of send_reports                          *)

\* C23: the location list of the owner being processed is, by the form of its
\* assignment: every id of the locations table when absent, the one id of a
\* string without comma, the trimmed parts in order of a comma-separated string,
\* and the list itself; an owner with an email address and any of the four forms
\* is not skipped.
C23_LocationParsing ==
    /\ pc = "fetch" =>
          LET assigned == owners[idx].assigned_location IN
          /\ assigned.kind = "none" => owner_location_ids = <<"L1", "L2">>
          /\ assigned.kind = "list" => owner_location_ids = assigned.v
          /\ (assigned.kind = "str" /\ assigned.parts = <<"L1">>)
                => owner_location_ids = <<"L1">>
          /\ (assigned.kind = "str" /\ assigned.parts = <<"L2", " L1">>)
                => owner_location_ids = <<"L2", "L1">>
    /\ \A j \in Processed :
          (owners[j].email # None
           /\ owners[j].assigned_location.kind \in {"none", "str", "list"}
           /\ (owners[j].assigned_location.kind = "list"
                  => owners[j].assigned_location.v # <<>>))
          => email_results[j].status # "skipped"

\* an owner assigned "L2, L1" was sent a report on the records of both locations
C23_Witness ==
    \E j \in Processed :
        /\ owners[j].assigned_location.kind = "str"
        /\ owners[j].assigned_location.parts = <<"L2", " L1">>
        /\ email_results[j].status = "success"
        /\ email_results[j].locations = 2
        /\ FetchViewOf(j)[1].location_id = "L2"
        /\ FetchViewOf(j)[2].location_id = "L1"
        /\ FetchViewOf(j)[2].rows # <<>>

----------------------------------------------------------------------------
(* UPI sub-accounts and hourly totals of analyze_data                      *)

\* the records that name an account and are paid by UPI in any letter case
IsUpi(log) == log.payment_mode \in {"UPI", "upi"}
NamesAccount(log) == log.upi_account_name # None

RECURSIVE AccountCount(_, _, _)
AccountCount(ls, i, name) ==
    IF i > Len(ls) THEN 0
    ELSE (IF IsUpi(ls[i]) /\ ls[i].upi_account_name = name THEN 1 ELSE 0)
         + AccountCount(ls, i + 1, name)

RECURSIVE AccountAmount(_, _, _)
AccountAmount(ls, i, name) ==
    IF i > Len(ls) THEN 0
    ELSE (IF IsUpi(ls[i]) /\ ls[i].upi_account_name = name THEN ls[i].Amount[1] ELSE 0)
         + AccountAmount(ls, i + 1, name)

RECURSIVE SumCountOf(_, _)
SumCountOf(accts, i) ==
    IF i > Len(accts) THEN 0 ELSE accts[i].count + SumCountOf(accts, i + 1)

RECURSIVE SumAmountOf(_, _)
SumAmountOf(accts, i) ==
    IF i > Len(accts) THEN 0 ELSE accts[i].amount + SumAmountOf(accts, i + 1)

\* C24: whenever analyze_data returns, every payment group other than 'upi' has
\* an empty upiAccounts map; the upi group's map has one entry per account named
\* by a UPI record, holding the count and amount of exactly those records; the
\* nested counts sum to at most the group's count and, when no amount is
\* negative, the nested amounts to at most its revenue, with equality when every
\* UPI record names an account.
C24_UpiSubAccounts ==
    Returned =>
        \A k \in 1 .. Len(analysis.paymentModeBreakdown) :
            LET g == analysis.paymentModeBreakdown[k]
                accts == g.upiAccounts
            IN  IF g.key # "upi" THEN accts = <<>>
                ELSE
                /\ \A a \in 1 .. Len(accts) :
                      /\ accts[a].key # None
                      /\ accts[a].count = AccountCount(logs, 1, accts[a].key)
                      /\ accts[a].count > 0
                      /\ accts[a].amount = AccountAmount(logs, 1, accts[a].key)
                      /\ \A b \in 1 .. Len(accts) : accts[b].key = accts[a].key => a = b
                /\ \A i \in 1 .. Len(logs) :
                      (IsUpi(logs[i]) /\ NamesAccount(logs[i]))
                          => \E a \in 1 .. Len(accts) :
                                accts[a].key = logs[i].upi_account_name
                /\ SumCountOf(accts, 1) <= g.count
                /\ (\A i \in 1 .. Len(logs) : logs[i].Amount[1] >= 0)
                      => SumAmountOf(accts, 1) <= g.revenue
                /\ (\A i \in 1 .. Len(logs) : IsUpi(logs[i]) => NamesAccount(logs[i]))
                      => /\ SumCountOf(accts, 1) = g.count
                         /\ SumAmountOf(accts, 1) = g.revenue

\* a cash record naming an account and a UPI record naming one: only the upi
\* group has a nested entry
C24_Witness ==
    /\ Returned
    /\ Len(logs) = 2
    /\ logs[1].payment_mode = "Cash" /\ logs[1].upi_account_name = "Acct1"
    /\ logs[2].payment_mode = "UPI" /\ logs[2].upi_account_name = "Acct1"
    /\ analysis.paymentModeBreakdown[1].upiAccounts = <<>>
    /\ analysis.paymentModeBreakdown[2].upiAccounts
          = <<[key |-> "Acct1", count |-> 1, amount |-> 500]>>

\* C29: whenever analyze_data returns, the counts of the slots of hourlyBreakdown
\* sum to totalVehicles, their amounts sum to totalRevenue, and busyHours is the
\* number of slots emitted.
C29_HourlyConservation ==
    Returned =>
        /\ SumCount(analysis.hourlyBreakdown, 1) = analysis.totalVehicles
        /\ SumAmountOf(analysis.hourlyBreakdown, 1) = analysis.totalRevenue
        /\ SumRevenue(analysis.hourlyBreakdown, 1) = analysis.totalRevenue
        /\ analysis.busyHours = Len(analysis.hourlyBreakdown)
        /\ analysis.totalVehicles = Len(logs)

\* two records in two hours, one of them with a negative amount
C29_Witness ==
    /\ Returned
    /\ Len(logs) = 2
    /\ logs[1].Amount = <<-1>>
    /\ logs[2].created_at = <<T0015>>
    /\ analysis.busyHours = 2
    /\ analysis.totalRevenue = 1

----------------------------------------------------------------------------
(* Properties of get_ses_client                                            *)

\* C25: over every interleaving of get_ses_client calls of the server's threads,
\* at most one SES client is constructed and every call returns the same client.
C25_ClientInitialisedOnce ==
    /\ built <= 1
    /\ Cardinality(returned) <= 1

----------------------------------------------------------------------------
(* Counters, totals and outcomes of the owner loop                         *)

\* C26: after each owner iteration emails_sent + emails_failed + emails_skipped
\* equals the number of owners processed so far and the length of the outcome
\* list, the j-th outcome being the j-th owner's; in the response of a finished
\* run the three counters add up to totalOwners.
C26_RunCounterInvariant ==
    /\ pc \in {"owner", "fetch"} =>
          /\ emails_sent + emails_failed + emails_skipped = Len(email_results)
          /\ Len(email_results) = idx - 1
          /\ \A j \in Processed : email_results[j].email = owners[j].email
    /\ Completed =>
          /\ response.emailsSent + response.emailsFailed + response.emailsSkipped
                = response.totalOwners
          /\ Len(response.results) = response.totalOwners
          /\ response.totalOwners = Len(owners)
          /\ \A j \in 1 .. Len(owners) : response.results[j].email = owners[j].email

\* a finished run of two owners, one skipped and one whose send raised
C26_Witness ==
    /\ Completed
    /\ response.totalOwners = 2
    /\ response.emailsSkipped = 1
    /\ response.emailsFailed = 1

RECURSIVE SumTotalVehicles(_, _)
SumTotalVehicles(dict, i) ==
    IF i > Len(dict) THEN 0
    ELSE dict[i].analysis.totalVehicles + SumTotalVehicles(dict, i + 1)

\* the owner loop has just recorded the outcome of a report with data, so that
\* location_data is still that owner's
ReportJustRecorded ==
    /\ pc \in {"owner", "done"}
    /\ email_results # <<>>
    /\ email_results[Len(email_results)].status = "success"
    /\ email_results[Len(email_results)].emailType # "no-data"

\* C27: the recordCount of a 'success' report outcome is the sum of totalVehicles
\* over the entries of the owner's location_data, whatever the assigned location
\* list (stated for owners whose every analysis returned).
C27_RecordCountIsSumOfVehicles ==
    ( /\ ReportJustRecorded
      /\ \A m \in FetchesOf(Len(email_results)) : ~fetchTrace[m].analysis.raised )
    => email_results[Len(email_results)].recordCount
          = SumTotalVehicles(location_data, 1)

RECURSIVE SuccessRevenue(_, _)
SuccessRevenue(results, i) ==
    IF i > Len(results) THEN 0
    ELSE (IF results[i].status = "success" THEN results[i].revenue ELSE 0)
         + SuccessRevenue(results, i + 1)

RECURSIVE SuccessRecords(_, _)
SuccessRecords(results, i) ==
    IF i > Len(results) THEN 0
    ELSE (IF results[i].status = "success" THEN results[i].recordCount ELSE 0)
         + SuccessRecords(results, i + 1)

\* the outcomes that add nothing to a 'success' sum: no-data deliveries
NoDataAddsNothing(results) ==
    \A j \in 1 .. Len(results) :
        (results[j].status = "success" /\ results[j].emailType = "no-data")
        => results[j].revenue = 0 /\ results[j].recordCount = 0

\* C28: during the loop and in the response of a finished run, the revenue and
\* record totals are the sums of revenue and recordCount over the 'success'
\* outcomes; failed, skipped and no-data outcomes add nothing to either.
C28_TotalsOverSuccess ==
    /\ pc \in {"owner", "fetch"} =>
          /\ total_revenue_summary = SuccessRevenue(email_results, 1)
          /\ total_records_summary = SuccessRecords(email_results, 1)
          /\ NoDataAddsNothing(email_results)
    /\ Completed =>
          /\ response.totalRevenue = SuccessRevenue(response.results, 1)
          /\ response.totalRecords = SuccessRecords(response.results, 1)
          /\ NoDataAddsNothing(response.results)

\* a finished run in which one owner's report send raised after records were
\* fetched for it and another owner's report with revenue was delivered
C28_Witness ==
    /\ Completed
    /\ response.totalRevenue > 0
    /\ response.totalRecords > 0
    /\ \E j \in 1 .. Len(owners) :
          /\ response.results[j].status = "failed"
          /\ SendRaisedFor(j)
          /\ \E m \in FetchesOf(j) : fetchTrace[m].count > 0

\* C30: an owner recorded as 'success' with emailType 'no-data' had at least one
\* location fetch that returned, and every fetch that returned had zero records.
C30_NoDataMeansFetched ==
    \A j \in Processed :
        (email_results[j].status = "success" /\ email_results[j].emailType = "no-data")
        => /\ \E m \in FetchesOf(j) : ~fetchTrace[m].raised
           /\ \A m \in FetchesOf(j) : ~fetchTrace[m].raised => fetchTrace[m].count = 0

====
